---------------------------- MODULE Spec2Model ----------------------------
(***************************************************************************)
(* Protocol engine of scripto-studio-pro: the raw-REPL execution state     *)
(* machine of the direct WebREPLConnection (src/src/ai/aiBridge.ts) and of *)
(* the webview WebREPLBridge (src/src/webview/webreplBridge.ts), together  *)
(* with the host-side pending-operation map of WebREPLBridgeWebview.       *)
(*                                                                         *)
(* Text is a sequence of symbols.  One symbol stands for one character,    *)
(* except for the tokens named below, which stand for a fixed substring    *)
(* the code searches for ('raw REPL', 'Password:', '"CMD":"<tag>"', ...).  *)
(***************************************************************************)
EXTENDS Integers, Sequences, FiniteSets, TLC

\* ------------------------------------------------------------------ bounds
MaxCalls == 2
MaxCallsConn == 1
MaxOut == 1
MaxFrame == 3
MaxConnects == 1
MaxAttempts == 3
TickMs == 16000
MaxJson == 1
MaxPayload == 1
\* channelized reads made on one handler
MaxReads == 2
\* full blocks in a file the device serves
MaxFull == 3

\* ------------------------------------------------------- program constants
replTimeout == 15000
GetPromptTimeoutMs == 2000
FileOpTimeoutMs == 30000
WEBREPL_RESP_OK == 0
ListDirTimeoutMs == 10000
HostExecTimeoutMs == 30000
RawEntryTimeoutMs == 5000
ConnectTimeoutMs == 10000
\* channelized protocol
CbBlockSize == 4096
CbTransferTimeoutMs == 30000
WCB_FILES == 23
WCB_READ_REQUEST == 1
WCB_DATA == 3
WCB_ACK == 4
WCB_ERROR == 5
WCB_WRITE_REQUEST == 2
WCB_LIST_DIR == 6
WCB_DELETE == 7
WCB_RENAME == 8
WCB_MKDIR == 9
CbMetaTimeoutMs == 10000

\* ------------------------------------------------------------------ symbols
EOT == "EOT"
WS == " "
LBRACE == "{"
RBRACE == "}"
GT == ">"
RAW_BANNER == "raw REPL"
PASSWORD_PROMPT == "Password:"
PROMPT3 == ">>>"
ACCESS_DENIED == "Access denied"
\* what the client hands to WebSocket.send
CR == "CR"
CTRL_A == "0x01"
CTRL_C == "0x03"
CTRL_D == "0x04"
CODE == "code"
FILE_REQUEST == "WA"

BroadcastCmds == {"AUTO-INFO", "PLOT-DATA-UPDATE", "DISPLAY-UI"}
ResponseCmds == {"LIST-DIR"}
CmdTokens == BroadcastCmds \cup ResponseCmds

Calls == 1..MaxCalls
\* the calls made in behaviours that include the connection phase
ConnCalls == 1..MaxCallsConn
Attempts == 1..MaxAttempts
\* the credentials a caller may pass to connect()
Credentials == {"pw1", "pw2"}
OutChars == {"a", WS}
\* the texts a program may print on stdout or stderr
Strs == UNION {[1..n -> OutChars] : n \in 0..MaxOut}
NoCall == 0

\* What a block of code prints: its stdout and its stderr.
Programs == [out : Strs, err : Strs]
NoOutput == [out |-> <<>>, err |-> <<>>]
\* the listing code listDir falls back to
ListProgram == [out |-> <<"a">>, err |-> <<>>]
\* the code run in behaviours with MaxCalls calls
ExecPrograms == {[out |-> <<"a">>, err |-> <<>>]}

\* data[i] of a Uint8Array in a bitwise expression: undefined counts as 0
ByteAt(data, i) == IF i <= Len(data) THEN data[i] ELSE 0

\* --------------------------------------------------------- string functions
\* String.prototype.startsWith
StartsWith(s, p) ==
    /\ Len(s) >= Len(p)
    /\ SubSeq(s, 1, Len(p)) = p

\* String.prototype.includes, for a one-symbol needle
Includes(s, ch) == \E i \in 1..Len(s) : s[i] = ch

IncludesAny(s, S) == \E i \in 1..Len(s) : s[i] \in S

RECURSIVE TrimLeft(_)
TrimLeft(s) ==
    IF s # <<>> /\ Head(s) = WS THEN TrimLeft(Tail(s)) ELSE s

RECURSIVE TrimRight(_)
TrimRight(s) ==
    IF s # <<>> /\ s[Len(s)] = WS THEN TrimRight(SubSeq(s, 1, Len(s) - 1)) ELSE s

\* String.prototype.trim
Trim(s) == TrimRight(TrimLeft(s))

\* index of the first end-of-stream byte, 0 when there is none
FirstEOT(s) ==
    IF Includes(s, EOT)
      THEN CHOOSE i \in 1..Len(s) : s[i] = EOT /\ \A j \in 1..(i - 1) : s[j] # EOT
      ELSE 0

\* s.split('\x04')[0]
SplitHead(s) ==
    IF FirstEOT(s) = 0 THEN s ELSE SubSeq(s, 1, FirstEOT(s) - 1)

\* s.split('\x04').slice(1).join('\x04')
SplitRest(s) ==
    IF FirstEOT(s) = 0 THEN <<>> ELSE SubSeq(s, FirstEOT(s) + 1, Len(s))

\* JSON.parse succeeds on the trimmed text exactly when it is one object;
\* the only objects of the model are { "CMD":"<tag>" }.
JsonParses(t) ==
    /\ Len(t) = 3
    /\ t[1] = LBRACE
    /\ t[2] \in CmdTokens
    /\ t[3] = RBRACE

\* response.CMD of a parsed frame
JsonCmd(t) == t[2]

isBroadcastCommand(cmd) == cmd \in BroadcastCmds

VARIABLES
    impl,            \* "direct": WebREPLConnection over its own socket; "bridge": WebREPLBridge in the webview, driven by the host
    webreplState,    \* lifecycle state
    replState,       \* execution sub-state
    wsRef,           \* the connect attempt whose socket this.websocket holds, 0 when null
    sock,            \* per connect attempt: "none", "open", "closing" (closed, close event queued), "closed"
    nConnects,       \* connect() calls made so far
    password,        \* the stored credential, "" before the first accepted connect()
    connCall,        \* per connect attempt: "none", "pending", "resolved", "rejected"
    connTimer,       \* per connect attempt: remaining ms of connectTimeout, -1 when not armed
    checkReady,      \* per connect attempt: the checkReady interval is running
    entryTimer,      \* per connect attempt: remaining ms of the raw-mode entry timeout (bridge), -1 when not armed
    rawReplBuffer,
    jsonResponse,    \* <<>> is null
    rawReplResolve,  \* the call whose resolve/reject pair is stored, NoCall when null
    silentMode,
    execAge,         \* Date.now() - codeSentTimestamp, saturating at replTimeout + 1
    pendingFileOp,   \* [call, type], call = NoCall when null
    fileTimer,       \* per call: remaining ms of a file or list-dir timeout, -1 when not armed
    pendingCommands, \* command tag -> call, NoCall when absent
    callKind,        \* per call: "none", "exec", "get", "put", "listDir"
    callSilent,      \* per exec call: its silent argument
    callCode,        \* per exec call: what its code prints, [out, err]
    callState,       \* per call: "new", "prompt", "ready", "submitted", "resolved", "rejected"
    callResult,      \* per call: the value or error it settled with
    microQ,          \* calls whose continuation after 'await getPrompt()' is queued as a microtask
    promptTimer,     \* per call: remaining ms of getPrompt's timeout, -1 when not armed
    hostState,       \* host side, per call: "none", "pending" (entry in pendingOperations), "resolved", "rejected"
    hostTimer,       \* host side, per call: remaining ms of the operation timeout, -1 when not armed
    dataEvents,      \* data events raised, in order: [data, isError, call]
    broadcasts,      \* broadcast events raised, in order
    devMode,         \* device: "off", "greet", "auth", "friendly", "raw"
    devStream,       \* bytes the device still has to send
    jsonSent,        \* structured frames the device has sent
    devFile,         \* device: the legacy file requests it has received and not answered, [call, type]
    sent,            \* what the running step handed to WebSocket.send, in order
    sendCallback,    \* WebREPLCBHandler: a send callback has been set
    channelCallbacks,\* WebREPLCBHandler: the callbacks registered for the file channel, in order: [kind, op]
    tftpTransfers,   \* WebREPLCBHandler: transfer id (path) -> the operation whose record is stored, 0 when absent
    cbOp,            \* per channelized operation: its promise and the transfer record its callback closes over
    cbTimer,         \* per channelized operation: remaining ms of its timeout, -1 when not armed
    cbDev,           \* device: the file-channel frames it still has to send, in order
    cbSent,          \* the messages the running step handed to sendMessage, in order
    cbStore,         \* device: path -> the blocks it has stored for it, <<Hole>> when there is no such file
    cbPeer,          \* device: the transfer it is running, [mode, path, data, cur, total, bytes]
    rxRaw,           \* the frame of any shape the step just taken received, NoRaw when it received none
    rxFrame,         \* the frame last handed to detectProtocol, NoFrame before the first
    protocol,        \* what detectProtocol returned for it
    breakpoints,     \* DAPHandler: source path -> its stored breakpoints [id, line], <<>> when the map has no entry
    breakpointIdCounter, \* DAPHandler: the id the next breakpoint gets
    seq,             \* DAPHandler: the sequence number the next outgoing message gets
    initialized,     \* DAPHandler: the 'initialize' request has been answered
    stopped,         \* DAPHandler: execution is reported as stopped
    dapSendCallback, \* DAPHandler: whether a send callback is installed
    request,         \* the debug request the step just taken handled, NoRequest when it handled none
    dapOut,          \* the messages the step just taken handed to the send callback, in order
    sentSeqs,        \* the sequence numbers of all messages handed to the send callback, in order
    assignedIds,     \* the breakpoint ids assigned so far
    fileRequest,     \* the legacy file request last built: its opcode, path (code points) and payload
    header,          \* the bytes built for it
    host,            \* host side of the bridge: WebREPLConnection.webreplState, its connect() call and the calls made
    webview,         \* webview side, as the host sees it: its lifecycle state, its socket, close events still to come
    toWebview,       \* commands posted by the host, not yet handled by the webview, in order
    toHost,          \* messages posted by the webview, not yet handled by the host, in order
    events           \* the connected and disconnected events the connection has raised, in order

connVars == <<webreplState, wsRef, sock, nConnects, password, connCall, connTimer, checkReady, entryTimer>>
engineVars == <<replState, rawReplBuffer, jsonResponse, rawReplResolve, silentMode,
                callState, callResult, pendingCommands, dataEvents, broadcasts>>
callVars == <<callKind, callSilent, callCode, microQ, promptTimer>>
fileVars == <<pendingFileOp, fileTimer>>
hostVars == <<hostState, hostTimer>>
devVars == <<devMode, devStream, jsonSent, devFile>>

cbVars == <<sendCallback, channelCallbacks, tftpTransfers, cbOp, cbTimer, cbDev, cbSent,
           cbStore, cbPeer>>
\* the state of the connection, its calls and the legacy device
connectionVars == <<impl, connVars, engineVars, callVars, fileVars, hostVars, devVars,
                    execAge, sent>>

\* protocol detection and the debug-adapter handler
detectVars == <<rxFrame, protocol>>
dapVars == <<breakpoints, breakpointIdCounter, seq, initialized, stopped, dapSendCallback,
            request, dapOut, sentSeqs, assignedIds>>
\* the host's connection object and the webview it drives through messages
hostConnVars == <<host, webview, toWebview, toHost, events>>
\* the legacy request frame built by getFile and putFile
codecVars == <<fileRequest, header>>
auxVars == <<detectVars, dapVars, hostConnVars, codecVars>>

vars == <<connectionVars, cbVars, auxVars, rxRaw>>

\* what a step of protocol detection, of the debug handler, of the host's
\* connection leaves alone
notDetectVars == <<connectionVars, cbVars, rxRaw, dapVars, hostConnVars, codecVars>>
notDapVars == <<connectionVars, cbVars, rxRaw, detectVars, hostConnVars, codecVars>>
notHostConnVars == <<connectionVars, cbVars, rxRaw, detectVars, dapVars, codecVars>>
notCodecVars == <<connectionVars, cbVars, rxRaw, detectVars, dapVars, hostConnVars>>

\* the step just taken received no frame of any shape
NoRaw == [via |-> "none", bytes |-> <<>>,
          shape |-> [decodes |-> FALSE, isArray |-> FALSE, length |-> 0,
                     channelIsNumber |-> FALSE, opcodeIsNumber |-> FALSE]]

\* no frame has been classified
NoFrame == [kind |-> "none", data |-> <<>>]

\* connect() and disconnect() calls of the host, closes by the device
MaxHostConnects == 2
MaxHostDisconnects == 2
MaxCloses == 1

HostConnects == 1..MaxHostConnects

\* no legacy file request has been built
NoFileRequest == [op |-> 0, path |-> <<>>, data |-> <<>>]

\* no debug request was handled
NoRequest == [seq |-> 0, command |-> ""]

\* source files of the debugged program
DapPaths == {"/main.py", "/lib.py"}

\* new DAPHandler(); nothing classified, nothing dropped
AuxInit ==
    /\ rxRaw = NoRaw
    /\ rxFrame = NoFrame
    /\ protocol = ""
    /\ breakpoints = [p \in DapPaths |-> <<>>]
    /\ breakpointIdCounter = 1
    /\ seq = 1
    /\ initialized = FALSE
    /\ stopped = FALSE
    /\ dapSendCallback = FALSE
    /\ request = NoRequest
    /\ dapOut = <<>>
    /\ sentSeqs = <<>>
    /\ assignedIds = {}
    /\ fileRequest = NoFileRequest
    /\ header = <<>>
    /\ host = [webreplState |-> "DISCONNECTED", call |-> [c \in HostConnects |-> "none"],
               connects |-> 0, resolved |-> 0, disconnects |-> 0]
    /\ webview = [webreplState |-> "DISCONNECTED", websocket |-> 0, closing |-> 0,
                  closes |-> 0]
    /\ toWebview = <<>>
    /\ toHost = <<>>
    /\ events = <<>>

\* The fields a message handler reads and writes, gathered in one record.
Eng ==
    [rs |-> replState, buf |-> rawReplBuffer, json |-> jsonResponse,
     res |-> rawReplResolve, silent |-> silentMode, st |-> callState,
     val |-> callResult, cmds |-> pendingCommands, ev |-> dataEvents,
     bc |-> broadcasts]

ERR_TIMEOUT == <<"Timeout">>
ERR_CLOSED == <<"Connection closed">>
ERR_NOT_CONNECTED == <<"Not connected">>
ERR_SEND == <<"TypeError">>
ERR_PARSE == <<"Failed to parse directory listing">>
ERR_FILE_FAILED == <<"File operation failed">>
ERR_SIZE_MISMATCH == <<"File size mismatch">>
ERR_TOO_SHORT == <<"Invalid GET response (too short)">>
ARG == <<"ARG">>

Pending(st) == st \in {"prompt", "ready", "submitted"}

\* Calling a promise's resolve or reject function: the first call settles it,
\* later calls do nothing.  listDir's fallback parses what its silent execRaw
\* resolved with, and fails on the empty string.
Settle(e, c, how, v) ==
    IF c # NoCall /\ Pending(e.st[c])
      THEN IF how = "resolved" /\ callKind[c] = "listDirFallback" /\ v = <<>>
             THEN [e EXCEPT !.st[c] = "rejected", !.val[c] = ERR_PARSE]
             ELSE [e EXCEPT !.st[c] = how, !.val[c] = v]
      ELSE e

\* WebREPLConnection._notifyData: fires the data event
D_notifyData(e, data, isError) ==
    [e EXCEPT !.ev = Append(@, [data |-> data, isError |-> isError, call |-> e.res])]

\* WebREPLBridge._notifyData: posts the data message unless silent
B_notifyData(e, data, isError) ==
    IF ~e.silent
      THEN [e EXCEPT !.ev = Append(@, [data |-> data, isError |-> isError, call |-> e.res])]
      ELSE e

\* A dispatcher that drops every structured frame: C9 does not hold of it.
handleCommandResponseDrop(e, cmd) == e

\* _handleCommandResponse (both implementations): broadcasts are raised as
\* events, any other tag resolves the pending command registered under it.
handleCommandResponse(e, cmd) ==
    IF cmd \in BroadcastCmds
      THEN [e EXCEPT !.bc = Append(@, cmd)]
      ELSE IF e.cmds[cmd] # NoCall
             THEN Settle([e EXCEPT !.cmds[cmd] = NoCall], e.cmds[cmd], "resolved", ARG)
             ELSE e

\* ------------------------------------------------ WebREPLConnection (direct)
\* WebREPLConnection._handleRawReplMessage
RECURSIVE D_handleRawReplMessage(_, _)
D_handleRawReplMessage(e, text) ==
    IF e.rs = "ENTERING_RAW" THEN
        LET b == e.buf \o text IN
        IF Includes(b, RAW_BANNER) /\ Includes(b, GT)
          THEN [e EXCEPT !.rs = "RAW_REPL_READY", !.buf = <<>>]
          ELSE [e EXCEPT !.buf = b]
    ELSE IF e.rs = "RAW_REPL_READY" THEN
        LET t == Trim(text) IN
        IF StartsWith(t, <<LBRACE>>) /\ IncludesAny(t, CmdTokens) /\ JsonParses(t)
          THEN handleCommandResponse(e, JsonCmd(t))
          ELSE e
    ELSE IF e.rs = "WAITING_OK" THEN
        IF execAge > replTimeout THEN
            [Settle(e, e.res, "rejected", ERR_TIMEOUT)
                EXCEPT !.rs = "RAW_REPL_READY", !.res = NoCall]
        ELSE IF StartsWith(text, <<"O", "K">>) THEN
            LET remainingData == SubSeq(text, 3, Len(text)) IN
            IF Len(remainingData) > 0
              THEN D_handleRawReplMessage([e EXCEPT !.rs = "RUNNING"], remainingData)
              ELSE [e EXCEPT !.rs = "RUNNING"]
        ELSE e
    ELSE IF e.rs = "RUNNING" THEN
        LET b == e.buf \o text IN
        IF Includes(b, EOT) THEN
            LET output == SplitHead(b)
                remaining == SplitRest(b)
                e1 == IF ~e.silent /\ output # <<>>
                        THEN D_notifyData(e, output, FALSE) ELSE e
                e2 == [e1 EXCEPT !.rs = "GOT_FIRST_EOF", !.buf = remaining]
            IN  IF remaining # <<>> THEN D_handleRawReplMessage(e2, remaining) ELSE e2
        ELSE [e EXCEPT !.buf = b]
    ELSE IF e.rs = "GOT_FIRST_EOF" THEN
        LET b == e.buf \o text IN
        IF Includes(b, EOT) THEN
            LET errorOutput == SplitHead(b)
                e1 == IF ~e.silent /\ errorOutput # <<>>
                        THEN D_notifyData(e, errorOutput, TRUE) ELSE e
                useJson == e.silent /\ e.json # <<>>
                result == IF useJson THEN e.json ELSE errorOutput
                e2 == [e1 EXCEPT !.json = IF useJson THEN <<>> ELSE @,
                                 !.rs = "RAW_REPL_READY", !.buf = <<>>]
            IN  [Settle(e2, e2.res, "resolved", result) EXCEPT !.res = NoCall]
        ELSE [e EXCEPT !.buf = b]
    ELSE e

\* WebREPLConnection._onWebSocketMessage, text frames
D_onWebSocketMessage(e, textData) ==
    LET trimmed == Trim(textData) IN
    IF StartsWith(trimmed, <<LBRACE>>) /\ IncludesAny(trimmed, CmdTokens) /\ JsonParses(trimmed)
      THEN LET e1 == handleCommandResponse(e, JsonCmd(trimmed)) IN
           IF e1.silent /\ e1.res # NoCall /\ ~isBroadcastCommand(JsonCmd(trimmed))
             THEN [e1 EXCEPT !.json = textData]
             ELSE e1
      ELSE IF e.rs \in {"ENTERING_RAW", "RAW_REPL_READY", "WAITING_OK", "RUNNING", "GOT_FIRST_EOF"}
             THEN D_handleRawReplMessage(e, textData)
             ELSE D_notifyData(e, textData, FALSE)

\* --------------------------------------------------- WebREPLBridge (webview)
\* WebREPLBridge._handleRawReplMessage
RECURSIVE B_handleRawReplMessage(_, _)
B_handleRawReplMessage(e, frame) ==
    IF e.rs = "ENTERING_RAW" THEN
        LET b == e.buf \o frame IN
        IF Includes(b, RAW_BANNER) /\ Includes(b, GT)
          THEN [e EXCEPT !.rs = "RAW_REPL_READY", !.buf = <<>>]
          ELSE [e EXCEPT !.buf = b]
    ELSE IF e.rs = "RAW_REPL_READY" THEN e
    ELSE IF e.rs = "WAITING_OK" THEN
        IF execAge > replTimeout THEN
            [Settle(e, e.res, "rejected", ERR_TIMEOUT)
                EXCEPT !.rs = "RAW_REPL_READY", !.res = NoCall]
        ELSE IF StartsWith(frame, <<"O", "K">>) THEN
            LET remaining == SubSeq(frame, 3, Len(frame)) IN
            IF remaining # <<>>
              THEN B_handleRawReplMessage([e EXCEPT !.rs = "RUNNING"], remaining)
              ELSE [e EXCEPT !.rs = "RUNNING"]
        ELSE e
    ELSE IF e.rs = "RUNNING" THEN
        IF Includes(frame, EOT) THEN
            LET stdout == SplitHead(frame)
                remaining == SplitRest(frame)
                e1 == IF ~e.silent /\ Trim(stdout) # <<>>
                        THEN B_notifyData(e, stdout, FALSE) ELSE e
                e2 == [e1 EXCEPT !.rs = "GOT_FIRST_EOF"]
            IN  IF remaining # <<>> THEN B_handleRawReplMessage(e2, remaining) ELSE e2
        ELSE IF ~e.silent /\ Trim(frame) # <<>>
               THEN B_notifyData(e, frame, FALSE) ELSE e
    ELSE IF e.rs = "GOT_FIRST_EOF" THEN
        IF Includes(frame, EOT) THEN
            LET stderr == SplitHead(frame)
                e1 == IF ~e.silent /\ Trim(stderr) # <<>>
                        THEN B_notifyData(e, stderr, TRUE) ELSE e
                e2 == [e1 EXCEPT !.rs = "RAW_REPL_READY"]
            IN  [Settle(e2, e2.res, "resolved", e2.json)
                    EXCEPT !.res = NoCall, !.silent = FALSE, !.json = <<>>]
        ELSE IF ~e.silent /\ Trim(frame) # <<>>
               THEN B_notifyData(e, frame, TRUE) ELSE e
    ELSE e

\* WebREPLBridge._handleMessage, text frames
B_handleMessage(e, textData) ==
    LET trimmed == Trim(textData) IN
    IF StartsWith(trimmed, <<LBRACE>>) /\ JsonParses(trimmed) /\ JsonCmd(trimmed) # ""
      THEN LET e1 == handleCommandResponse(e, JsonCmd(trimmed))
               e2 == IF e1.silent /\ e1.res # NoCall /\ ~isBroadcastCommand(JsonCmd(trimmed))
                       THEN [e1 EXCEPT !.json = textData] ELSE e1
           IN  IF e2.rs \in {"RUNNING", "GOT_FIRST_EOF", "WAITING_OK"}
                 THEN [Settle(e2, e2.res, "resolved", e2.json)
                          EXCEPT !.rs = "RAW_REPL_READY", !.res = NoCall,
                                 !.silent = FALSE, !.json = <<>>]
                 ELSE e2
      ELSE IF e.rs \in {"ENTERING_RAW", "RAW_REPL_READY", "WAITING_OK", "RUNNING", "GOT_FIRST_EOF"}
             THEN B_handleRawReplMessage(e, textData)
             ELSE B_notifyData(e, textData, FALSE)

\* ----------------------------------------------------------------- helpers
Min(a, b) == IF a < b THEN a ELSE b

ExecStates == {"WAITING_OK", "RUNNING", "GOT_FIRST_EOF"}
RawStates == {"ENTERING_RAW", "RAW_REPL_READY", "WAITING_OK", "RUNNING", "GOT_FIRST_EOF"}

ApplyEng(e) ==
    /\ replState' = e.rs
    /\ rawReplBuffer' = e.buf
    /\ jsonResponse' = e.json
    /\ rawReplResolve' = e.res
    /\ silentMode' = e.silent
    /\ callState' = e.st
    /\ callResult' = e.val
    /\ pendingCommands' = e.cmds
    /\ dataEvents' = e.ev
    /\ broadcasts' = e.bc

\* Calls are numbered in the order in which they are made.
NextCall(c) == callState[c] = "new" /\ \A d \in 1..(c - 1) : callState[d] # "new"

\* No microtask is queued: the event loop may run the next timer or event.
MacroOK == microQ = <<>>

\* The socket the device talks on: the one created last, 0 when there is none.
LastSock ==
    CHOOSE a \in 0..MaxAttempts :
        /\ a = 0 \/ sock[a] # "none"
        /\ \A b \in Attempts : b > a => sock[b] = "none"

\* this.websocket is non-null and its socket is open: a send reaches the device
CanSend == wsRef # 0 /\ sock[wsRef] = "open"

\* The device's answer to a block of code terminated by Ctrl-D, in raw mode:
\* 'OK', stdout, EOT, stderr, EOT.
Response(out, err) == <<"O", "K">> \o out \o <<EOT>> \o err \o <<EOT>>

\* ------------------------------------------------ channelized handler state
CbOps == 1..MaxReads
CbPaths == {"/main.py", "/boot.py"}
\* the lengths of the block that ends a file the device serves
CbLastLens == {0, 512, CbBlockSize - 1}
\* a slot of transfer.data that was never assigned
Hole == -1

\* an operation that has not been called
CbNoOp ==
    [kind |-> "none", state |-> "none", path |-> "", data |-> <<>>, complete |-> FALSE,
     size |-> 0, chunks |-> <<>>, err |-> <<>>, bytes |-> 0, currentBlock |-> 0,
     entries |-> <<>>]

\* a device that runs no transfer
CbPeerIdle == [mode |-> "idle", path |-> "", data |-> <<>>, cur |-> 0, total |-> 0, bytes |-> 0]

\* new WebREPLCBHandler()
CbInit ==
    /\ sendCallback = FALSE
    /\ channelCallbacks = <<>>
    /\ tftpTransfers = [p \in CbPaths |-> 0]
    /\ cbOp = [r \in CbOps |-> CbNoOp]
    /\ cbTimer = [r \in CbOps |-> -1]
    /\ cbDev = <<>>
    /\ cbSent = <<>>
    /\ cbStore = [p \in CbPaths |-> <<Hole>>]
    /\ cbPeer = CbPeerIdle

Init ==
    /\ CbInit
    /\ AuxInit
    /\ impl \in {"direct", "bridge"}
    /\ webreplState = "DISCONNECTED"
    /\ replState = "IDLE"
    /\ wsRef = 0
    /\ sock = [a \in Attempts |-> "none"]
    /\ nConnects = 0
    /\ password = ""
    /\ connCall = [a \in Attempts |-> "none"]
    /\ connTimer = [a \in Attempts |-> -1]
    /\ checkReady = [a \in Attempts |-> FALSE]
    /\ entryTimer = [a \in Attempts |-> -1]
    /\ rawReplBuffer = <<>>
    /\ jsonResponse = <<>>
    /\ rawReplResolve = NoCall
    /\ silentMode = FALSE
    /\ execAge = replTimeout + 1
    /\ pendingFileOp = [call |-> NoCall, type |-> "none"]
    /\ fileTimer = [c \in Calls |-> -1]
    /\ pendingCommands = [t \in ResponseCmds |-> NoCall]
    /\ callKind = [c \in Calls |-> "none"]
    /\ callSilent = [c \in Calls |-> FALSE]
    /\ callCode = [c \in Calls |-> NoOutput]
    /\ callState = [c \in Calls |-> "new"]
    /\ callResult = [c \in Calls |-> <<>>]
    /\ microQ = <<>>
    /\ promptTimer = [c \in Calls |-> -1]
    /\ hostState = [c \in Calls |-> "none"]
    /\ hostTimer = [c \in Calls |-> -1]
    /\ dataEvents = <<>>
    /\ broadcasts = <<>>
    /\ devMode = "off"
    /\ devStream = <<>>
    /\ jsonSent = 0
    /\ devFile = <<>>
    /\ sent = <<>>

\* ------------------------------------------------------------- connection
\* A close() that leaves the transport open: C16 does not hold of it.
SockLeftOpen == sock

\* WebSocket.close() on the socket this.websocket holds
SockAfterClose ==
    IF CanSend THEN [sock EXCEPT ![wsRef] = "closing"] ELSE sock

\* connect(): accepted only when DISCONNECTED; creates the socket, arms
\* connectTimeout.  The device picks its greeting.
Connect(pw) ==
    /\ nConnects < MaxAttempts
    /\ webreplState = "DISCONNECTED"
    /\ password' = pw
    /\ LET a == nConnects + 1 IN
        /\ nConnects' = a
        /\ wsRef' = a
        /\ sock' = [sock EXCEPT ![a] = "open"]
        /\ webreplState' = "CONNECTING"
        /\ connCall' = [connCall EXCEPT ![a] = "pending"]
        /\ connTimer' = [connTimer EXCEPT ![a] = ConnectTimeoutMs]
        /\ \E g \in {"auth", "friendly", "raw"} :
              /\ devMode' = g
              /\ devStream' = CASE g = "auth" -> <<PASSWORD_PROMPT>>
                                 [] g = "friendly" -> <<PROMPT3>>
                                 [] g = "raw" -> <<RAW_BANNER, GT>>
    /\ devFile' = <<>>
    /\ sent' = <<>>
    /\ rxRaw' = NoRaw /\ UNCHANGED <<cbVars, auxVars, impl, checkReady, entryTimer, engineVars, callVars, fileVars,
                   hostVars, jsonSent, execAge>>

\* connect() while the lifecycle state is not DISCONNECTED: the call throws
\* before it touches anything; its promise is rejected.
ConnectRefused(pw) ==
    /\ nConnects < MaxAttempts
    /\ webreplState # "DISCONNECTED"
    /\ nConnects' = nConnects + 1
    /\ connCall' = [connCall EXCEPT ![nConnects + 1] = "rejected"]
    /\ sent' = <<>>
    /\ rxRaw' = NoRaw /\ UNCHANGED <<cbVars, auxVars, impl, webreplState, wsRef, sock, password, connTimer, checkReady,
                   entryTimer, engineVars, callVars, fileVars, hostVars, devVars, execAge>>

\* An interrupt() that resets the sub-state itself instead of leaving it to
\* the device's answer: C17 does not hold of it.
InterruptForcesReady ==
    /\ sent' = IF wsRef # 0 /\ webreplState = "CONNECTED" THEN <<CTRL_C>> ELSE <<>>
    /\ replState' = "RAW_REPL_READY"
    /\ rxRaw' = NoRaw /\ UNCHANGED <<cbVars, auxVars, impl, connVars, rawReplBuffer, jsonResponse, rawReplResolve, silentMode,
                   callState, callResult, pendingCommands, dataEvents, broadcasts, callVars,
                   fileVars, hostVars, devVars, execAge>>

\* interrupt(): one Ctrl-C is sent when there is a socket and the lifecycle
\* state is CONNECTED; nothing else is touched.
Interrupt ==
    /\ sent' = IF wsRef # 0 /\ webreplState = "CONNECTED" THEN <<CTRL_C>> ELSE <<>>
    /\ rxRaw' = NoRaw /\ UNCHANGED <<cbVars, auxVars, impl, connVars, engineVars, callVars, fileVars, hostVars, devVars,
                   execAge>>

\* disconnect() of WebREPLConnection (no bridge) and of WebREPLBridge: closes
\* the socket, drops the reference, resets both states.  Nothing else is touched.
Disconnect ==
    /\ sock' = SockAfterClose
    /\ wsRef' = 0
    /\ webreplState' = "DISCONNECTED"
    /\ replState' = "IDLE"
    /\ devMode' = IF CanSend THEN "off" ELSE devMode
    /\ devStream' = IF CanSend THEN <<>> ELSE devStream
    /\ devFile' = IF CanSend THEN <<>> ELSE devFile
    /\ sent' = <<>>
    /\ rxRaw' = NoRaw /\ UNCHANGED <<cbVars, auxVars, impl, nConnects, password, connCall, connTimer, checkReady, entryTimer,
                   rawReplBuffer, jsonResponse, rawReplResolve, silentMode, callState,
                   callResult, pendingCommands, dataEvents, broadcasts, callVars,
                   fileVars, hostVars, jsonSent, execAge>>

\* The device or the network closes the transport.
DeviceClose ==
    /\ MacroOK
    /\ LastSock >= 1
    /\ sock[LastSock] = "open"
    /\ sock' = [sock EXCEPT ![LastSock] = "closing"]
    /\ devMode' = "off"
    /\ devStream' = <<>>
    /\ devFile' = <<>>
    /\ sent' = <<>>
    /\ rxRaw' = NoRaw /\ UNCHANGED <<cbVars, auxVars, impl, webreplState, wsRef, nConnects, password, connCall, connTimer, checkReady,
                   entryTimer, engineVars, callVars, fileVars, hostVars, jsonSent, execAge>>

\* The transport of attempt a fails: the 'error' listener registered by
\* connect() clears connectTimeout and rejects; the socket closes, its close
\* event follows.
ErrorEvent(a) ==
    /\ MacroOK
    /\ sock[a] = "open"
    /\ sock' = [sock EXCEPT ![a] = "closing"]
    /\ connTimer' = [connTimer EXCEPT ![a] = -1]
    /\ connCall' = [connCall EXCEPT ![a] = IF @ = "pending" THEN "rejected" ELSE @]
    /\ devMode' = IF a = LastSock THEN "off" ELSE devMode
    /\ devStream' = IF a = LastSock THEN <<>> ELSE devStream
    /\ devFile' = IF a = LastSock THEN <<>> ELSE devFile
    /\ sent' = <<>>
    /\ rxRaw' = NoRaw /\ UNCHANGED <<cbVars, auxVars, impl, webreplState, wsRef, nConnects, password, checkReady, entryTimer,
                   engineVars, callVars, fileVars, hostVars, jsonSent, execAge>>

\* The 'close' listener registered by connect() on the socket of attempt a.
CloseEvent(a) ==
    /\ MacroOK
    /\ sock[a] = "closing"
    /\ sock' = [sock EXCEPT ![a] = "closed"]
    /\ webreplState' = "DISCONNECTED"
    /\ IF impl = "direct"
         THEN /\ connTimer' = [connTimer EXCEPT ![a] = -1]
              /\ connCall' = [connCall EXCEPT ![a] =
                     IF webreplState \in {"CONNECTING", "AUTHENTICATING"} /\ @ = "pending"
                       THEN "rejected" ELSE @]
              /\ replState' = "IDLE"
         ELSE UNCHANGED <<connTimer, connCall, replState>>
    /\ sent' = <<>>
    /\ rxRaw' = NoRaw /\ UNCHANGED <<cbVars, auxVars, impl, wsRef, nConnects, password, checkReady, entryTimer,
                   rawReplBuffer, jsonResponse, rawReplResolve, silentMode, callState,
                   callResult, pendingCommands, dataEvents, broadcasts, callVars,
                   fileVars, hostVars, devVars, execAge>>

\* connectTimeout of attempt a expires.
ConnectTimeout(a) ==
    /\ MacroOK
    /\ connTimer[a] = 0
    /\ connTimer' = [connTimer EXCEPT ![a] = -1]
    /\ connCall' = [connCall EXCEPT ![a] = IF @ = "pending" THEN "rejected" ELSE @]
    /\ sock' = SockAfterClose
    /\ devMode' = IF CanSend THEN "off" ELSE devMode
    /\ devStream' = IF CanSend THEN <<>> ELSE devStream
    /\ devFile' = IF CanSend THEN <<>> ELSE devFile
    /\ IF impl = "direct"
         THEN UNCHANGED <<wsRef, webreplState, replState>>
         ELSE /\ wsRef' = 0
              /\ webreplState' = "DISCONNECTED"
              /\ replState' = "IDLE"
    /\ sent' = <<>>
    /\ rxRaw' = NoRaw /\ UNCHANGED <<cbVars, auxVars, impl, nConnects, password, checkReady, entryTimer,
                   rawReplBuffer, jsonResponse, rawReplResolve, silentMode, callState,
                   callResult, pendingCommands, dataEvents, broadcasts, callVars,
                   fileVars, hostVars, jsonSent, execAge>>

\* The checkReady interval of attempt a finds the raw REPL ready.
CheckReady(a) ==
    /\ MacroOK
    /\ checkReady[a]
    /\ replState = "RAW_REPL_READY"
    /\ checkReady' = [checkReady EXCEPT ![a] = FALSE]
    /\ connCall' = [connCall EXCEPT ![a] = IF @ = "pending" THEN "resolved" ELSE @]
    /\ sent' = <<>>
    /\ rxRaw' = NoRaw /\ UNCHANGED <<cbVars, auxVars, impl, webreplState, wsRef, sock, nConnects, password, connTimer, entryTimer,
                   engineVars, callVars, fileVars, hostVars, devVars, execAge>>

\* WebREPLBridge only: the 5 s raw-mode entry timeout of attempt a expires.
RawEntryTimeout(a) ==
    /\ MacroOK
    /\ impl = "bridge"
    /\ entryTimer[a] = 0
    /\ entryTimer' = [entryTimer EXCEPT ![a] = -1]
    /\ IF replState # "RAW_REPL_READY"
         THEN /\ checkReady' = [checkReady EXCEPT ![a] = FALSE]
              /\ replState' = "RAW_REPL_READY"
              /\ connCall' = [connCall EXCEPT ![a] = IF @ = "pending" THEN "resolved" ELSE @]
         ELSE UNCHANGED <<checkReady, replState, connCall>>
    /\ sent' = <<>>
    /\ rxRaw' = NoRaw /\ UNCHANGED <<cbVars, auxVars, impl, webreplState, wsRef, sock, nConnects, password, connTimer,
                   rawReplBuffer, jsonResponse, rawReplResolve, silentMode, callState,
                   callResult, pendingCommands, dataEvents, broadcasts, callVars,
                   fileVars, hostVars, devVars, execAge>>

\* ---------------------------------------------------------- frame handling
\* A test that never recognises the raw-mode banner: C15 does not hold of it.
AlreadyRawIgnored(data) == FALSE

\* _handleAuthMessage: data.indexOf('raw REPL') !== -1 inside the success branch
AlreadyRaw(data) == Includes(data, RAW_BANNER)

\* _handleAuthMessage (both implementations), run by the message listener of
\* attempt a while CONNECTING or AUTHENTICATING.  rest is what the device
\* still has to send after this frame.
HandleAuthMessage(a, data, rest) ==
    IF Includes(data, PASSWORD_PROMPT) THEN
        \* the stored credential followed by '\r' is sent; the device accepts or denies it
        /\ webreplState' = "AUTHENTICATING"
        /\ sent' = IF wsRef # 0 THEN <<password, CR>> ELSE <<>>
        /\ IF CanSend /\ devMode = "auth"
             THEN \E ok \in BOOLEAN :
                    /\ devMode' = IF ok THEN "friendly" ELSE "off"
                    /\ devStream' = rest \o (IF ok THEN <<PROMPT3>> ELSE <<ACCESS_DENIED>>)
             ELSE devMode' = devMode /\ devStream' = rest
        /\ UNCHANGED <<wsRef, sock, connCall, connTimer, checkReady, entryTimer, engineVars>>
    ELSE IF Includes(data, PROMPT3) \/ Includes(data, RAW_BANNER) THEN
        /\ webreplState' = "CONNECTED"
        /\ connTimer' = [connTimer EXCEPT ![a] = -1]
        /\ UNCHANGED <<wsRef, sock>>
        /\ IF AlreadyRaw(data)
             THEN /\ replState' = "RAW_REPL_READY"
                  /\ connCall' = [connCall EXCEPT ![a] = IF @ = "pending" THEN "resolved" ELSE @]
                  /\ devMode' = devMode /\ devStream' = rest
                  /\ sent' = <<>>
                  /\ UNCHANGED <<checkReady, entryTimer, rawReplBuffer, dataEvents>>
             ELSE \* Ctrl-A is sent; the device enters raw mode and says so, or ignores it
                  /\ replState' = "ENTERING_RAW"
                  /\ rawReplBuffer' = <<>>
                  /\ sent' = IF wsRef # 0 THEN <<CTRL_A>> ELSE <<>>
                  /\ dataEvents' = IF impl = "bridge"
                                     THEN B_notifyData(Eng, data, FALSE).ev ELSE dataEvents
                  /\ checkReady' = [checkReady EXCEPT ![a] = TRUE]
                  /\ entryTimer' = IF impl = "bridge"
                                     THEN [entryTimer EXCEPT ![a] = RawEntryTimeoutMs]
                                     ELSE entryTimer
                  /\ connCall' = connCall
                  /\ IF CanSend /\ devMode = "friendly"
                       THEN \E answers \in BOOLEAN :
                              /\ devMode' = IF answers THEN "raw" ELSE "friendly"
                              /\ devStream' = rest \o (IF answers THEN <<RAW_BANNER, GT>> ELSE <<>>)
                       ELSE devMode' = devMode /\ devStream' = rest
        /\ UNCHANGED <<jsonResponse, rawReplResolve, silentMode, callState, callResult,
                       pendingCommands, broadcasts>>
    ELSE IF Includes(data, ACCESS_DENIED) THEN
        \* reject, then this.disconnect()
        /\ connTimer' = [connTimer EXCEPT ![a] = -1]
        /\ connCall' = [connCall EXCEPT ![a] = IF @ = "pending" THEN "rejected" ELSE @]
        /\ sock' = SockAfterClose
        /\ wsRef' = 0
        /\ webreplState' = "DISCONNECTED"
        /\ replState' = "IDLE"
        /\ devMode' = IF CanSend THEN "off" ELSE devMode
        /\ devStream' = IF CanSend THEN <<>> ELSE rest
        /\ sent' = <<>>
        /\ UNCHANGED <<checkReady, entryTimer, rawReplBuffer, jsonResponse, rawReplResolve,
                       silentMode, callState, callResult, pendingCommands, dataEvents,
                       broadcasts>>
    ELSE
        /\ devMode' = devMode /\ devStream' = rest
        /\ sent' = <<>>
        /\ UNCHANGED <<webreplState, wsRef, sock, connCall, connTimer, checkReady,
                       entryTimer, engineVars>>

\* _onWebSocketMessage / _handleMessage for a text frame
OnTextMessage(e, frame) ==
    IF impl = "direct" THEN D_onWebSocketMessage(e, frame) ELSE B_handleMessage(e, frame)

\* The 'message' listener of the socket of attempt a: routes by lifecycle state.
Receive(a, frame, rest) ==
    IF webreplState \in {"CONNECTING", "AUTHENTICATING"}
      THEN HandleAuthMessage(a, frame, rest)
      ELSE /\ ApplyEng(OnTextMessage(Eng, frame))
           /\ devMode' = devMode /\ devStream' = rest
           /\ sent' = <<>>
           /\ UNCHANGED <<webreplState, wsRef, sock, connCall, connTimer, checkReady,
                          entryTimer>>

\* The device sends the next n symbols of its stream as one text frame.
DeviceSendText(n) ==
    /\ MacroOK
    /\ LastSock >= 1
    /\ sock[LastSock] = "open"
    /\ n <= Len(devStream)
    /\ (Head(devStream) = "O" => n >= 2)
    /\ LET frame == SubSeq(devStream, 1, n)
           rest == SubSeq(devStream, n + 1, Len(devStream))
       IN  /\ Receive(LastSock, frame, rest)
    /\ rxRaw' = NoRaw /\ UNCHANGED <<cbVars, auxVars, impl, nConnects, password, callVars, fileVars, hostVars, jsonSent, devFile,
                   execAge>>

\* The device sends a structured frame { "CMD": cmd, ... } as one text frame.
DeviceSendJson(cmd) ==
    /\ MacroOK
    /\ LastSock >= 1
    /\ sock[LastSock] = "open"
    /\ jsonSent < MaxJson
    /\ jsonSent' = jsonSent + 1
    /\ Receive(LastSock, <<LBRACE, cmd, RBRACE>>, devStream)
    /\ rxRaw' = NoRaw /\ UNCHANGED <<cbVars, auxVars, impl, nConnects, password, callVars, fileVars, hostVars, devFile, execAge>>

\* -------------------------------------------------------------- execution
\* WebREPLConnection.execRaw after 'await this.getPrompt()': the promise
\* executor stores the resolver pair, resets the buffers and sends the code.
D_execRawSubmit(e, c, silent) ==
    [e EXCEPT !.silent = silent, !.res = c, !.buf = <<>>, !.json = <<>>,
              !.rs = "WAITING_OK", !.st[c] = "submitted"]

\* WebREPLBridge.execRaw once the prompt is ready; this.websocket.send throws
\* inside the promise executor when the socket reference is null.
B_execRawSubmit(e, c, silent) ==
    [e EXCEPT !.silent = silent, !.json = <<>>, !.rs = "WAITING_OK", !.res = c,
              !.st[c] = IF wsRef # 0 THEN "submitted" ELSE "rejected",
              !.val[c] = IF wsRef # 0 THEN @ ELSE ERR_SEND]

\* A submission that leaves the silent flag as the last call set it: C36 does
\* not hold of it.
execRawSubmitKeepsFlag(e, c, silent) ==
    IF impl = "direct"
      THEN [D_execRawSubmit(e, c, silent) EXCEPT !.silent = e.silent]
      ELSE [B_execRawSubmit(e, c, silent) EXCEPT !.silent = e.silent]

execRawSubmit(e, c, silent) ==
    IF impl = "direct" THEN D_execRawSubmit(e, c, silent) ELSE B_execRawSubmit(e, c, silent)

\* The device's stream once the client has sent code: a device in raw mode
\* that is reached answers with what the code prints, any other sends nothing.
DeviceGetsCode(code) ==
    IF CanSend /\ devMode = "raw"
      THEN devStream \o Response(code.out, code.err)
      ELSE devStream

\* The code of call c is submitted from engine state e.
SubmitExec(c, silent, code, e) ==
    /\ ApplyEng(execRawSubmit(e, c, silent))
    /\ execAge' = 0
    /\ sent' = IF wsRef # 0 THEN <<CODE, CTRL_D>> ELSE <<>>
    /\ devStream' = DeviceGetsCode(code)

\* WebREPLBridge.listDir once the prompt is ready: registers the LIST-DIR
\* handler, sends getListDir(...) through _executeCommand, arms the 10 s timer.
\* With a null socket reference the send throws, the handler is removed again
\* and listDir falls back to a silent execRaw.
ListDirStart(c, e) ==
    /\ fileTimer' = [fileTimer EXCEPT ![c] = ListDirTimeoutMs]
    /\ IF wsRef = 0
         THEN /\ callKind' = [callKind EXCEPT ![c] = "listDirFallback"]
              /\ callSilent' = [callSilent EXCEPT ![c] = TRUE]
              /\ callCode' = [callCode EXCEPT ![c] = ListProgram]
              /\ SubmitExec(c, TRUE, ListProgram, [e EXCEPT !.cmds["LIST-DIR"] = NoCall])
         ELSE /\ callKind' = [callKind EXCEPT ![c] = "listDir"]
              /\ UNCHANGED <<callSilent, callCode, execAge>>
              /\ ApplyEng([e EXCEPT !.cmds["LIST-DIR"] = c, !.st[c] = "submitted"])
              /\ sent' = <<CODE, CTRL_D>>
              /\ devStream' = DeviceGetsCode(NoOutput)

\* What runs when getPrompt() has returned for call c.
Continue(c, e) ==
    IF callKind[c] = "listDir"
      THEN ListDirStart(c, e)
      ELSE /\ SubmitExec(c, callSilent[c], callCode[c], e)
           /\ UNCHANGED <<callKind, callSilent, callCode, fileTimer>>

\* The host-side entry WebREPLBridgeWebview adds to pendingOperations for a
\* request, with its timeout; nothing on the direct connection.
HostRegister(c, ms) ==
    IF impl = "bridge"
      THEN /\ hostState' = [hostState EXCEPT ![c] = "pending"]
           /\ hostTimer' = [hostTimer EXCEPT ![c] = ms]
      ELSE UNCHANGED hostVars

\* getPrompt() when the raw REPL is not ready: Ctrl-C is sent and the caller
\* waits on the 2 s timeout and the 100 ms interval.  On the bridge the send
\* throws when the socket reference is null.
WaitPrompt(c) ==
    IF impl = "bridge" /\ wsRef = 0
      THEN /\ callState' = [callState EXCEPT ![c] = "rejected"]
           /\ callResult' = [callResult EXCEPT ![c] = ERR_SEND]
           /\ sent' = <<>>
           /\ UNCHANGED promptTimer
      ELSE /\ callState' = [callState EXCEPT ![c] = "prompt"]
           /\ callResult' = callResult
           /\ sent' = IF wsRef # 0 THEN <<CTRL_C>> ELSE <<>>
           /\ promptTimer' = [promptTimer EXCEPT ![c] = GetPromptTimeoutMs]

\* execRaw(code, silent) is called; code prints code.out and code.err.
ExecRaw(c, silent, code) ==
    /\ NextCall(c)
    /\ HostRegister(c, HostExecTimeoutMs)
    /\ callKind' = [callKind EXCEPT ![c] = "exec"]
    /\ callSilent' = [callSilent EXCEPT ![c] = silent]
    /\ callCode' = [callCode EXCEPT ![c] = code]
    /\ rxRaw' = NoRaw /\ UNCHANGED <<cbVars, auxVars, impl, connVars, fileVars, devMode, jsonSent, devFile>>
    /\ IF impl = "direct" /\ webreplState # "CONNECTED" THEN
          /\ callState' = [callState EXCEPT ![c] = "rejected"]
          /\ callResult' = [callResult EXCEPT ![c] = ERR_NOT_CONNECTED]
          /\ sent' = <<>>
          /\ UNCHANGED <<replState, rawReplBuffer, jsonResponse, rawReplResolve, silentMode,
                         pendingCommands, dataEvents, broadcasts, microQ, promptTimer,
                         devStream, execAge>>
       ELSE IF replState = "RAW_REPL_READY" /\ impl = "direct" THEN
          /\ callState' = [callState EXCEPT ![c] = "ready"]
          /\ microQ' = Append(microQ, c)
          /\ sent' = <<>>
          /\ UNCHANGED <<replState, rawReplBuffer, jsonResponse, rawReplResolve, silentMode,
                         callResult, pendingCommands, dataEvents, broadcasts, promptTimer,
                         devStream, execAge>>
       ELSE IF replState = "RAW_REPL_READY" THEN
          /\ SubmitExec(c, silent, code, Eng)
          /\ UNCHANGED <<microQ, promptTimer>>
       ELSE
          /\ WaitPrompt(c)
          /\ UNCHANGED <<replState, rawReplBuffer, jsonResponse, rawReplResolve, silentMode,
                         pendingCommands, dataEvents, broadcasts, microQ, devStream, execAge>>

\* The continuation queued behind 'await this.getPrompt()' runs.
RunMicrotask ==
    /\ microQ # <<>>
    /\ microQ' = Tail(microQ)
    /\ Continue(Head(microQ), Eng)
    /\ rxRaw' = NoRaw /\ UNCHANGED <<cbVars, auxVars, impl, connVars, promptTimer, pendingFileOp, hostVars, devMode, jsonSent, devFile>>

\* getPrompt's 100 ms interval finds RAW_REPL_READY: it clears the timeout and
\* resolves; the caller's continuation is queued.
GetPromptInterval(c) ==
    /\ MacroOK
    /\ callState[c] = "prompt"
    /\ replState = "RAW_REPL_READY"
    /\ promptTimer' = [promptTimer EXCEPT ![c] = -1]
    /\ callState' = [callState EXCEPT ![c] = "ready"]
    /\ microQ' = Append(microQ, c)
    /\ sent' = <<>>
    /\ rxRaw' = NoRaw /\ UNCHANGED <<cbVars, auxVars, impl, connVars, replState, rawReplBuffer, jsonResponse, rawReplResolve,
                   silentMode, callResult, pendingCommands, dataEvents, broadcasts,
                   callKind, callSilent, callCode, fileVars, hostVars, devVars, execAge>>

\* The body of getPrompt's timeout callback: the sub-state is forced.
getPromptTimeout(e) == [e EXCEPT !.rs = "RAW_REPL_READY"]

\* A timeout callback that neither forces the sub-state nor resolves: C4 does
\* not hold of it.
GetPromptTimeoutLost(c) ==
    /\ MacroOK
    /\ callState[c] = "prompt"
    /\ promptTimer[c] = 0
    /\ promptTimer' = [promptTimer EXCEPT ![c] = -1]
    /\ sent' = <<>>
    /\ rxRaw' = NoRaw /\ UNCHANGED <<cbVars, auxVars, impl, connVars, engineVars, callKind, callSilent, callCode, microQ,
                   fileVars, hostVars, devVars, execAge>>

\* getPrompt's 2 s timeout expires: the sub-state is forced to RAW_REPL_READY
\* and the caller's continuation is queued.
GetPromptTimeout(c) ==
    /\ MacroOK
    /\ callState[c] = "prompt"
    /\ promptTimer[c] = 0
    /\ promptTimer' = [promptTimer EXCEPT ![c] = -1]
    /\ ApplyEng([getPromptTimeout(Eng) EXCEPT !.st[c] = "ready"])
    /\ microQ' = Append(microQ, c)
    /\ sent' = <<>>
    /\ rxRaw' = NoRaw /\ UNCHANGED <<cbVars, auxVars, impl, connVars, callKind, callSilent, callCode, fileVars, hostVars,
                   devVars, execAge>>

\* ------------------------------------------------- command-correlated calls
\* WebREPLBridge.listDir(path) is called (through the host).
ListDir(c) ==
    /\ impl = "bridge"
    /\ NextCall(c)
    /\ HostRegister(c, ListDirTimeoutMs)
    /\ rxRaw' = NoRaw /\ UNCHANGED <<cbVars, auxVars, impl, connVars, microQ, pendingFileOp, devMode, jsonSent, devFile>>
    /\ IF replState = "RAW_REPL_READY"
         THEN /\ ListDirStart(c, Eng)
              /\ UNCHANGED promptTimer
         ELSE /\ callKind' = [callKind EXCEPT ![c] = "listDir"]
              /\ WaitPrompt(c)
              /\ UNCHANGED <<replState, rawReplBuffer, jsonResponse, rawReplResolve,
                             silentMode, pendingCommands, dataEvents, broadcasts,
                             callSilent, callCode, fileTimer, devStream, execAge>>

\* The 10 s timer of listDir call c expires: a LIST-DIR handler that is
\* registered is removed and the call's promise rejected, upon which listDir
\* falls back to a silent execRaw.
ListDirTimeout(c) ==
    /\ MacroOK
    /\ callKind[c] \in {"listDir", "listDirFallback"}
    /\ fileTimer[c] = 0
    /\ fileTimer' = [fileTimer EXCEPT ![c] = -1]
    /\ rxRaw' = NoRaw /\ UNCHANGED <<cbVars, auxVars, impl, connVars, microQ, pendingFileOp, hostVars, devMode, jsonSent, devFile>>
    /\ IF pendingCommands["LIST-DIR"] = NoCall THEN
          /\ sent' = <<>>
          /\ UNCHANGED <<engineVars, callKind, callSilent, callCode, promptTimer, devStream,
                         execAge>>
       ELSE IF ~(callKind[c] = "listDir" /\ callState[c] = "submitted") THEN
          /\ pendingCommands' = [pendingCommands EXCEPT !["LIST-DIR"] = NoCall]
          /\ sent' = <<>>
          /\ UNCHANGED <<replState, rawReplBuffer, jsonResponse, rawReplResolve, silentMode,
                         callState, callResult, dataEvents, broadcasts, callKind, callSilent,
                         callCode, promptTimer, devStream, execAge>>
       ELSE
          /\ callKind' = [callKind EXCEPT ![c] = "listDirFallback"]
          /\ callSilent' = [callSilent EXCEPT ![c] = TRUE]
          /\ callCode' = [callCode EXCEPT ![c] = ListProgram]
          /\ IF replState = "RAW_REPL_READY"
               THEN /\ SubmitExec(c, TRUE, ListProgram, [Eng EXCEPT !.cmds["LIST-DIR"] = NoCall])
                    /\ UNCHANGED promptTimer
               ELSE /\ pendingCommands' = [pendingCommands EXCEPT !["LIST-DIR"] = NoCall]
                    /\ WaitPrompt(c)
                    /\ UNCHANGED <<replState, rawReplBuffer, jsonResponse, rawReplResolve,
                                   silentMode, dataEvents, broadcasts, devStream, execAge>>

\* ------------------------------------------------------- legacy file calls
\* The device's queue once the client has sent a GET or PUT request: a device
\* that is reached and past authentication takes the request.
DeviceGetsRequest(c, type) ==
    IF CanSend /\ devMode \in {"friendly", "raw"}
      THEN Append(devFile, [call |-> c, type |-> type])
      ELSE devFile

\* getFile / putFile is called: the single slot pendingFileOp is overwritten.
\* The direct connection refuses when not CONNECTED and arms a 30 s timer; on
\* the bridge the send throws when the socket reference is null.
FileOp(c, type) ==
    /\ NextCall(c)
    /\ HostRegister(c, FileOpTimeoutMs)
    /\ callKind' = [callKind EXCEPT ![c] = type]
    /\ rxRaw' = NoRaw /\ UNCHANGED <<cbVars, auxVars, impl, connVars, replState, rawReplBuffer, jsonResponse, rawReplResolve,
                   silentMode, pendingCommands, dataEvents, broadcasts, callSilent, callCode, microQ,
                   promptTimer, devMode, devStream, jsonSent, execAge>>
    /\ IF impl = "direct" /\ webreplState # "CONNECTED" THEN
          /\ callState' = [callState EXCEPT ![c] = "rejected"]
          /\ callResult' = [callResult EXCEPT ![c] = ERR_NOT_CONNECTED]
          /\ sent' = <<>>
          /\ UNCHANGED <<fileVars, devFile>>
       ELSE IF impl = "direct" THEN
          /\ callState' = [callState EXCEPT ![c] = "submitted"]
          /\ callResult' = callResult
          /\ pendingFileOp' = [call |-> c, type |-> type]
          /\ fileTimer' = [fileTimer EXCEPT ![c] = FileOpTimeoutMs]
          /\ sent' = IF wsRef # 0 THEN <<FILE_REQUEST>> ELSE <<>>
          /\ devFile' = DeviceGetsRequest(c, type)
       ELSE
          /\ callState' = [callState EXCEPT ![c] = IF wsRef # 0 THEN "submitted" ELSE "rejected"]
          /\ callResult' = [callResult EXCEPT ![c] = IF wsRef # 0 THEN @ ELSE ERR_SEND]
          /\ pendingFileOp' = [call |-> c, type |-> type]
          /\ fileTimer' = fileTimer
          /\ sent' = IF wsRef # 0 THEN <<FILE_REQUEST>> ELSE <<>>
          /\ devFile' = DeviceGetsRequest(c, type)

\* The 30 s timer of the direct getFile / putFile call c expires: when the
\* slot is occupied it is cleared and the call's promise rejected.
FileOpTimeout(c) ==
    /\ MacroOK
    /\ callKind[c] \in {"get", "put"}
    /\ fileTimer[c] = 0
    /\ fileTimer' = [fileTimer EXCEPT ![c] = -1]
    /\ IF pendingFileOp.call # NoCall
         THEN /\ pendingFileOp' = [call |-> NoCall, type |-> "none"]
              /\ ApplyEng(Settle(Eng, c, "rejected", ERR_TIMEOUT))
         ELSE UNCHANGED <<pendingFileOp, engineVars>>
    /\ sent' = <<>>
    /\ rxRaw' = NoRaw /\ UNCHANGED <<cbVars, auxVars, impl, connVars, callVars, hostVars, devVars, execAge>>

\* A legacy response frame 'W' 'B' status [length payload]: its status, whether
\* it is long enough to carry the four length bytes, the length it declares
\* and the number of payload bytes it holds.
BinFrames ==
    {f \in [status : {WEBREPL_RESP_OK, 1}, hasLen : BOOLEAN,
            declared : 0..MaxPayload, payload : 0..MaxPayload] :
        ~f.hasLen => f.declared = 0 /\ f.payload = 0}

\* payload bytes
Payload(n) == [i \in 1..n |-> "b"]

\* pendingFileOp.resolve / reject followed by 'this.pendingFileOp = null';
\* the direct connection's wrappers clear the call's timer.
SettleFileOp(how, v) ==
    LET c == pendingFileOp.call
        e == Settle(Eng, c, how, v)
    IN  /\ pendingFileOp' = [call |-> NoCall, type |-> "none"]
        /\ fileTimer' = [fileTimer EXCEPT ![c] = -1]
        /\ callState' = e.st
        /\ callResult' = e.val

\* WebREPLConnection._handleBinaryMessage for a frame with the 'WB' magic
D_handleBinaryMessage(f) ==
    IF pendingFileOp.call = NoCall THEN
        UNCHANGED <<pendingFileOp, fileTimer, callState, callResult>>
    ELSE IF f.status # WEBREPL_RESP_OK THEN
        SettleFileOp("rejected", ERR_FILE_FAILED)
    ELSE IF pendingFileOp.type = "get" THEN
        IF f.hasLen
          THEN IF f.payload = f.declared
                 THEN SettleFileOp("resolved", Payload(f.payload))
                 ELSE SettleFileOp("rejected", ERR_SIZE_MISMATCH)
          ELSE SettleFileOp("rejected", ERR_TOO_SHORT)
    ELSE
        SettleFileOp("resolved", <<>>)

\* WebREPLBridge._handleBinaryMessage for a frame with the 'WB' magic
B_handleBinaryMessage(f) ==
    IF pendingFileOp.call = NoCall THEN
        UNCHANGED <<pendingFileOp, fileTimer, callState, callResult>>
    ELSE IF f.status # WEBREPL_RESP_OK THEN
        SettleFileOp("rejected", ERR_FILE_FAILED)
    ELSE IF pendingFileOp.type = "get" THEN
        IF f.hasLen /\ f.payload = f.declared
          THEN SettleFileOp("resolved", Payload(f.payload))
          ELSE UNCHANGED <<pendingFileOp, fileTimer, callState, callResult>>
    ELSE
        SettleFileOp("resolved", <<>>)

\* A test for the magic bytes alone: C27 does not hold of it.
IsFileResponseAnyLength(data) == ByteAt(data, 1) = 87 /\ ByteAt(data, 2) = 66

\* data.length >= 4 && data[0] === 'W' && data[1] === 'B'
IsFileResponse(data) == Len(data) >= 4 /\ data[1] = 87 /\ data[2] = 66

\* The fields _handleBinaryMessage reads from the bytes of a response:
\* data[2] | (data[3] << 8), data.length >= 8, the declared size, and the
\* length of data.slice(8).
ParseBin(data) ==
    [status |-> ByteAt(data, 3) + 256 * ByteAt(data, 4),
     hasLen |-> Len(data) >= 8,
     declared |-> ByteAt(data, 5) + 256 * ByteAt(data, 6) + 65536 * ByteAt(data, 7)
                    + 16777216 * ByteAt(data, 8),
     payload |-> IF Len(data) >= 8 THEN Len(data) - 8 ELSE 0]

\* binary frames: too short for a response, with other magic bytes, with the
\* head of a channelized frame, and three responses
RawBins ==
    {<<>>, <<87>>, <<87, 66>>, <<87, 66, 0>>, <<87, 65, 0, 0>>, <<66, 87, 0, 0>>,
     <<0, 0, 0, 0>>, <<130, 23, 4>>,
     <<87, 66, 0, 0>>, <<87, 66, 1, 0>>, <<87, 66, 0, 0, 1, 0, 0, 0, 98>>}

\* The device sends the binary frame data, asked or not: the message
\* listener hands it to _handleBinaryMessage, which takes a file response and
\* drops everything else.
DeviceSendRawBinary(data) ==
    /\ MacroOK
    /\ LastSock >= 1
    /\ sock[LastSock] = "open"
    /\ webreplState = "CONNECTED"
    /\ IF IsFileResponse(data)
         THEN IF impl = "direct" THEN D_handleBinaryMessage(ParseBin(data))
                                 ELSE B_handleBinaryMessage(ParseBin(data))
         ELSE UNCHANGED <<pendingFileOp, fileTimer, callState, callResult>>
    /\ rxRaw' = [NoRaw EXCEPT !.via = "legacy", !.bytes = data]
    /\ sent' = <<>>
    /\ UNCHANGED <<cbVars, auxVars, impl, connVars, replState, rawReplBuffer, jsonResponse,
                   rawReplResolve, silentMode, pendingCommands, dataEvents, broadcasts,
                   callVars, hostVars, devVars, execAge>>

\* The device answers the oldest request it holds with the binary frame f;
\* the message listener hands it to _handleAuthMessage, which ignores binary
\* data, or to _handleBinaryMessage.
DeviceSendBinary(f) ==
    /\ devFile # <<>>
    /\ MacroOK
    /\ LastSock >= 1
    /\ sock[LastSock] = "open"
    /\ Head(devFile).type = "put" => ~f.hasLen
    /\ devFile' = Tail(devFile)
    /\ IF webreplState \in {"CONNECTING", "AUTHENTICATING"}
         THEN UNCHANGED <<pendingFileOp, fileTimer, callState, callResult>>
         ELSE IF impl = "direct" THEN D_handleBinaryMessage(f) ELSE B_handleBinaryMessage(f)
    /\ sent' = <<>>
    /\ rxRaw' = NoRaw /\ UNCHANGED <<cbVars, auxVars, impl, connVars, replState, rawReplBuffer, jsonResponse, rawReplResolve,
                   silentMode, pendingCommands, dataEvents, broadcasts, callVars, hostVars,
                   devMode, devStream, jsonSent, execAge>>

\* --------------------------------------------------------------- host side
\* WebREPLBridgeWebview.handleMessage('result'): the webview reports that the
\* bridge call behind request c has settled; the entry is removed and the
\* host promise settled the same way.
HostResult(c) ==
    /\ MacroOK
    /\ hostState[c] = "pending"
    /\ callState[c] \in {"resolved", "rejected"}
    /\ hostState' = [hostState EXCEPT ![c] = callState[c]]
    /\ hostTimer' = hostTimer
    /\ sent' = <<>>
    /\ rxRaw' = NoRaw /\ UNCHANGED <<cbVars, auxVars, impl, connVars, engineVars, callVars, fileVars, devVars, execAge>>

\* The host-side timer of request c expires: an entry still in the map is
\* removed and its promise rejected.
HostTimeout(c) ==
    /\ MacroOK
    /\ hostTimer[c] = 0
    /\ hostTimer' = [hostTimer EXCEPT ![c] = -1]
    /\ hostState' = [hostState EXCEPT ![c] = IF @ = "pending" THEN "rejected" ELSE @]
    /\ sent' = <<>>
    /\ rxRaw' = NoRaw /\ UNCHANGED <<cbVars, auxVars, impl, connVars, engineVars, callVars, fileVars, devVars, execAge>>

\* --------------------------------------------------------------------- time
\* A timer has expired, or an interval has something to do: it runs before
\* time advances further.
TimerDue ==
    \/ \E a \in Attempts : connTimer[a] = 0 \/ entryTimer[a] = 0
    \/ \E a \in Attempts : checkReady[a] /\ replState = "RAW_REPL_READY"
    \/ \E c \in Calls : promptTimer[c] = 0 \/ fileTimer[c] = 0 \/ hostTimer[c] = 0
    \/ \E c \in Calls : callState[c] = "prompt" /\ replState = "RAW_REPL_READY"

\* remaining times of the armed timers
Armed ==
    {connTimer[a] : a \in Attempts} \cup {entryTimer[a] : a \in Attempts}
      \cup {promptTimer[c] : c \in Calls} \cup {fileTimer[c] : c \in Calls}
      \cup {hostTimer[c] : c \in Calls}

\* time to the next timer expiry, at most TickMs
NextExpiry ==
    LET S == {t \in Armed : t > 0} \cup {TickMs}
    IN  CHOOSE t \in S : \A u \in S : t <= u

Dec(t, d) == IF t <= 0 THEN t ELSE t - d

\* Time passes up to the next timer expiry.
Tick ==
    /\ MacroOK
    /\ ~TimerDue
    /\ LET d == NextExpiry IN
        /\ connTimer' = [a \in Attempts |-> Dec(connTimer[a], d)]
        /\ entryTimer' = [a \in Attempts |-> Dec(entryTimer[a], d)]
        /\ promptTimer' = [c \in Calls |-> Dec(promptTimer[c], d)]
        /\ fileTimer' = [c \in Calls |-> Dec(fileTimer[c], d)]
        /\ hostTimer' = [c \in Calls |-> Dec(hostTimer[c], d)]
        /\ execAge' = Min(execAge + d, replTimeout + 1)
    /\ sent' = <<>>
    /\ rxRaw' = NoRaw /\ UNCHANGED <<cbVars, auxVars, impl, webreplState, wsRef, sock, nConnects, password, connCall, checkReady,
                   engineVars, callKind, callSilent, callCode, microQ, pendingFileOp,
                   hostState, devVars>>

Next ==
    \/ nConnects < MaxConnects /\ Connect("pw1")
    \/ Disconnect
    \/ DeviceClose
    \/ \E a \in Attempts : CloseEvent(a)
    \/ \E a \in Attempts : ConnectTimeout(a)
    \/ \E a \in Attempts : CheckReady(a)
    \/ \E a \in Attempts : RawEntryTimeout(a)
    \/ \E n \in 1..MaxFrame : DeviceSendText(n)
    \/ \E cmd \in CmdTokens : DeviceSendJson(cmd)
    \/ \E c \in ConnCalls, silent \in BOOLEAN, code \in Programs : ExecRaw(c, silent, code)
    \/ RunMicrotask
    \/ \E c \in ConnCalls : GetPromptInterval(c)
    \/ \E c \in ConnCalls : GetPromptTimeout(c)
    \/ \E c \in ConnCalls : ListDir(c)
    \/ \E c \in ConnCalls : ListDirTimeout(c)
    \/ \E c \in ConnCalls, type \in {"get", "put"} : FileOp(c, type)
    \/ \E c \in ConnCalls : FileOpTimeout(c)
    \/ \E f \in BinFrames : DeviceSendBinary(f)
    \/ \E c \in ConnCalls : HostResult(c)
    \/ \E c \in ConnCalls : HostTimeout(c)
    \/ Tick

\* The whole program, from construction, with MaxCallsConn calls.
Spec == Init /\ [][Next]_vars

\* The state after connect() has resolved against a device that greets in raw
\* mode: Connect, then the frame 'raw REPL' '>' handled by _handleAuthMessage.
ExecInit ==
    /\ CbInit
    /\ AuxInit
    /\ impl \in {"direct", "bridge"}
    /\ webreplState = "CONNECTED"
    /\ replState = "RAW_REPL_READY"
    /\ wsRef = 1
    /\ sock = [a \in Attempts |-> IF a = 1 THEN "open" ELSE "none"]
    /\ nConnects = 1
    /\ password = "pw1"
    /\ connCall = [a \in Attempts |-> IF a = 1 THEN "resolved" ELSE "none"]
    /\ connTimer = [a \in Attempts |-> -1]
    /\ checkReady = [a \in Attempts |-> FALSE]
    /\ entryTimer = [a \in Attempts |-> -1]
    /\ rawReplBuffer = <<>>
    /\ jsonResponse = <<>>
    /\ rawReplResolve = NoCall
    /\ silentMode = FALSE
    /\ execAge = replTimeout + 1
    /\ pendingFileOp = [call |-> NoCall, type |-> "none"]
    /\ fileTimer = [c \in Calls |-> -1]
    /\ pendingCommands = [t \in ResponseCmds |-> NoCall]
    /\ callKind = [c \in Calls |-> "none"]
    /\ callSilent = [c \in Calls |-> FALSE]
    /\ callCode = [c \in Calls |-> NoOutput]
    /\ callState = [c \in Calls |-> "new"]
    /\ callResult = [c \in Calls |-> <<>>]
    /\ microQ = <<>>
    /\ promptTimer = [c \in Calls |-> -1]
    /\ hostState = [c \in Calls |-> "none"]
    /\ hostTimer = [c \in Calls |-> -1]
    /\ dataEvents = <<>>
    /\ broadcasts = <<>>
    /\ devMode = "raw"
    /\ devStream = <<>>
    /\ jsonSent = 0
    /\ devFile = <<>>
    /\ sent = <<>>

\* The execution engine of a connected client, with MaxCalls calls.
ExecNext ==
    \/ \E n \in 1..MaxFrame : DeviceSendText(n)
    \/ \E cmd \in CmdTokens : DeviceSendJson(cmd)
    \/ \E c \in Calls, silent \in BOOLEAN, code \in ExecPrograms : ExecRaw(c, silent, code)
    \/ RunMicrotask
    \/ \E c \in Calls : GetPromptInterval(c)
    \/ \E c \in Calls : GetPromptTimeout(c)
    \/ \E c \in Calls : HostResult(c)
    \/ \E c \in Calls : HostTimeout(c)
    \/ Tick

ExecSpec == ExecInit /\ [][ExecNext]_vars

\* The event loop runs a due timer, an interval that has work and a queued
\* microtask, and time passes; the device is free to stay silent.
FairExecSpec ==
    /\ ExecSpec
    /\ WF_vars(Tick)
    /\ WF_vars(RunMicrotask)
    /\ \A c \in Calls : WF_vars(GetPromptTimeout(c))
    /\ \A c \in Calls : WF_vars(GetPromptInterval(c))
    /\ \A c \in Calls : WF_vars(HostTimeout(c))

\* The connection lifecycle from construction: connect() with either
\* credential, accepted or refused, against a device that asks for the
\* password, greets in friendly mode or greets in raw mode, and a transport
\* that may fail or close at any time.
ConnNext ==
    \/ \E pw \in Credentials : Connect(pw)
    \/ \E pw \in Credentials : ConnectRefused(pw)
    \/ Disconnect
    \/ DeviceClose
    \/ \E a \in Attempts : ErrorEvent(a)
    \/ \E a \in Attempts : CloseEvent(a)
    \/ \E a \in Attempts : ConnectTimeout(a)
    \/ \E a \in Attempts : CheckReady(a)
    \/ \E a \in Attempts : RawEntryTimeout(a)
    \/ \E n \in 1..MaxFrame : DeviceSendText(n)
    \/ Interrupt
    \/ Tick

ConnSpec == Init /\ [][ConnNext]_vars

\* The event loop runs due timers, intervals that have work and queued close
\* events, and time passes; the device and the callers are free to do nothing.
FairConnSpec ==
    /\ ConnSpec
    /\ WF_vars(Tick)
    /\ \A a \in Attempts : WF_vars(CloseEvent(a))
    /\ \A a \in Attempts : WF_vars(ConnectTimeout(a))
    /\ \A a \in Attempts : WF_vars(CheckReady(a))
    /\ \A a \in Attempts : WF_vars(RawEntryTimeout(a))

\* A call the caller still waits for: on the bridge the caller holds the host
\* promise, on the direct connection the call's own promise.
Outstanding(c) ==
    IF impl = "bridge" THEN hostState[c] = "pending" ELSE Pending(callState[c])

ReplKinds == {"exec", "listDir", "listDirFallback"}
FileKinds == {"get", "put"}

\* The caller serialises itself: no call of one of these kinds is outstanding.
Serialised(kinds) == \A d \in Calls : callKind[d] \in kinds => ~Outstanding(d)

\* A connected client whose caller issues executions, directory listings and
\* legacy file transfers, one of each class at a time.
OpsNext ==
    \/ \E n \in 1..MaxFrame : DeviceSendText(n)
    \/ \E cmd \in CmdTokens : DeviceSendJson(cmd)
    \/ \E f \in BinFrames : DeviceSendBinary(f)
    \/ \E c \in Calls, silent \in BOOLEAN, code \in ExecPrograms :
          Serialised(ReplKinds) /\ ExecRaw(c, silent, code)
    \/ \E c \in Calls : Serialised(ReplKinds) /\ ListDir(c)
    \/ \E c \in Calls, type \in FileKinds : Serialised(FileKinds) /\ FileOp(c, type)
    \/ RunMicrotask
    \/ \E c \in Calls : GetPromptInterval(c)
    \/ \E c \in Calls : GetPromptTimeout(c)
    \/ \E c \in Calls : ListDirTimeout(c)
    \/ \E c \in Calls : FileOpTimeout(c)
    \/ \E c \in Calls : HostResult(c)
    \/ \E c \in Calls : HostTimeout(c)
    \/ Interrupt
    \/ Disconnect
    \/ Tick

OpsSpec == ExecInit /\ [][OpsNext]_vars

\* ================================================================ properties
IsExec(c) == callKind[c] = "exec"

\* the data events of call c with the given error flag, concatenated in order
RECURSIVE ConcatData(_, _, _)
ConcatData(evs, c, isErr) ==
    IF evs = <<>> THEN <<>>
    ELSE (IF Head(evs).call = c /\ Head(evs).isError = isErr THEN Head(evs).data ELSE <<>>)
           \o ConcatData(Tail(evs), c, isErr)

\* the step delivers a text frame that begins with the acknowledgement 'OK'
OkFrame ==
    \E n \in 1..MaxFrame :
        /\ n <= Len(devStream)
        /\ StartsWith(SubSeq(devStream, 1, n), <<"O", "K">>)
        /\ DeviceSendText(n)

\* the step delivers a text frame that holds an end-of-stream byte
EotFrame ==
    \E n \in 1..MaxFrame :
        /\ n <= Len(devStream)
        /\ Includes(SubSeq(devStream, 1, n), EOT)
        /\ DeviceSendText(n)

\* the step returns the sub-state to Idle after the execution timeout
TimeoutStep == execAge > replTimeout /\ replState' = "RAW_REPL_READY"

\* the step resets the sub-state because the connection is given up
ClosingStep == replState' = "IDLE"

\* C1: when disconnect() is invoked, every call that is pending (execute,
\* get/put file, command request) is rejected with the connection-closed
\* error by that very step, in the engine and in the host's pending map.
C1_DisconnectRejectsPending ==
    [][Disconnect =>
         \A c \in Calls :
            /\ Pending(callState[c]) =>
                  callState'[c] = "rejected" /\ callResult'[c] = ERR_CLOSED
            /\ hostState[c] = "pending" => hostState'[c] = "rejected"]_vars

\* C2: at most one execution is outstanding: an execute call whose code has
\* been sent and which is unsettled is the one whose resolver is stored, so
\* no other execute call is in that position at the same time.
C2_OneExecutionOutstanding ==
    \A c \in Calls :
        IsExec(c) /\ callState[c] = "submitted" => rawReplResolve = c

\* C3: once the execution timeout has elapsed, the execute call whose code was
\* submitted is no longer pending, whether or not a frame arrives.
C3_TimeoutRejects ==
    \A c \in Calls :
        IsExec(c) /\ callState[c] = "submitted" /\ rawReplResolve = c
            => execAge <= replTimeout

\* C4: an execute call that waits behind an outstanding execution does not
\* wait for ever: whatever the device sends or omits, the call leaves the wait
\* and has its code submitted (or is settled), and it leaves the wait only
\* with the sub-state back to Idle.
C4_NeverBlocked ==
    /\ \A c \in Calls :
          (callState[c] = "prompt") ~> (callState[c] \in {"submitted", "resolved", "rejected"})
    /\ [][\A c \in Calls :
            callState[c] = "prompt" /\ callState'[c] # "prompt"
              => replState' = "RAW_REPL_READY" /\ callState'[c] = "ready"]_vars

\* C4 witness: the second call has waited for the prompt behind the first,
\* which is still outstanding, and the sub-state is back to Idle for it.
C4_Witness ==
    /\ callState[1] = "submitted"
    /\ callState[2] = "ready"
    /\ replState = "RAW_REPL_READY"

\* C5: the sub-state leaves AwaitingAck only on a frame that begins with 'OK'
\* (or on timeout), leaves StreamingStdout and StreamingStderr only on a frame
\* with an end-of-stream byte (or on timeout), leaves Idle only for
\* AwaitingAck, and an execute call resolves only on an end-of-stream frame
\* that returns the sub-state to Idle.
C5_SubStateOrder ==
    [][/\ replState = "RAW_REPL_READY" =>
            replState' \in {"RAW_REPL_READY", "WAITING_OK", "IDLE"}
       /\ replState = "WAITING_OK" /\ replState' # "WAITING_OK" =>
            ClosingStep \/ TimeoutStep \/ OkFrame
       /\ replState = "RUNNING" /\ replState' # "RUNNING" =>
            \/ ClosingStep
            \/ TimeoutStep
            \/ EotFrame /\ replState' \in {"GOT_FIRST_EOF", "RAW_REPL_READY"}
       /\ replState = "GOT_FIRST_EOF" /\ replState' # "GOT_FIRST_EOF" =>
            \/ ClosingStep
            \/ TimeoutStep
            \/ EotFrame /\ replState' = "RAW_REPL_READY"
       /\ \A c \in Calls :
            IsExec(c) /\ callState[c] = "submitted" /\ callState'[c] = "resolved" =>
                EotFrame /\ replState' = "RAW_REPL_READY"]_vars

\* C6: when a non-silent execution has completed and no structured frame was
\* sent, its non-error data events concatenated equal the stdout of its code.
C6_StdoutExact ==
    \A c \in Calls :
        IsExec(c) /\ ~callSilent[c] /\ callState[c] = "resolved" /\ jsonSent = 0
            => ConcatData(dataEvents, c, FALSE) = callCode[c].out

\* C7: when a non-silent execution of code that prints an error has completed
\* and no structured frame was sent, no stdout event of it follows a stderr
\* event of it, and its stderr events concatenated equal the stderr of its code.
C7_StderrExactAndOrdered ==
    \A c \in Calls :
        IsExec(c) /\ ~callSilent[c] /\ callState[c] = "resolved" /\ jsonSent = 0
          /\ callCode[c].err # <<>>
            => /\ ConcatData(dataEvents, c, TRUE) = callCode[c].err
               /\ \A i, j \in 1..Len(dataEvents) :
                     i < j /\ dataEvents[i].call = c /\ dataEvents[j].call = c
                       /\ dataEvents[i].isError => dataEvents[j].isError

\* C8: an execute call that has resolved without any structured frame having
\* been sent has resolved with the stderr of its code.
C8_ResolvesWithStderr ==
    \A c \in Calls :
        IsExec(c) /\ callState[c] = "resolved" /\ jsonSent = 0
            => callResult[c] = callCode[c].err

C10_ForwardedOnArrival ==
    [][\A n \in 1..MaxFrame :
          (/\ replState \in {"RUNNING", "GOT_FIRST_EOF"}
           /\ ~silentMode
           /\ n <= Len(devStream)
           /\ ~Includes(SubSeq(devStream, 1, n), EOT)
           /\ Trim(SubSeq(devStream, 1, n)) # <<>>
           /\ DeviceSendText(n))
          => dataEvents' = Append(dataEvents,
                 [data |-> SubSeq(devStream, 1, n),
                  isError |-> replState = "GOT_FIRST_EOF",
                  call |-> rawReplResolve])]_vars

\* the step is the expiry of the execution timeout of call c: a text frame
\* reaches the raw-REPL handler in WAITING_OK after more than replTimeout
ExecTimeoutExpiry(c) ==
    /\ rawReplResolve = c
    /\ replState = "WAITING_OK"
    /\ execAge > replTimeout
    /\ \E n \in 1..MaxFrame : DeviceSendText(n)

\* the step is the expiry of a timeout of call c
TimeoutExpiry(c) ==
    \/ ExecTimeoutExpiry(c)
    \/ FileOpTimeout(c)
    \/ ListDirTimeout(c)
    \/ HostTimeout(c)

\* call d and every registration made for it are as they were
Untouched(d) ==
    /\ callState'[d] = callState[d]
    /\ hostState'[d] = hostState[d]
    /\ pendingFileOp.call = d => pendingFileOp' = pendingFileOp
    /\ \A t \in ResponseCmds : pendingCommands[t] = d => pendingCommands'[t] = d
    /\ rawReplResolve = d => rawReplResolve' = d

\* C11: the expiry of an execution, file-transfer or directory-listing timeout
\* of a call leaves the lifecycle state CONNECTED and the transport open, and
\* neither settles nor unregisters any other call the caller still waits for.
C11_TimeoutRejectsOnlyThatCall ==
    [][\A c \in Calls :
          TimeoutExpiry(c) /\ webreplState = "CONNECTED"
            => /\ webreplState' = "CONNECTED"
               /\ sock' = sock
               /\ wsRef' = wsRef
               /\ \A d \in Calls \ {c} : Outstanding(d) => Untouched(d)]_vars

\* the transports that are open
LiveSocks == {a \in Attempts : sock[a] = "open"}

\* C12: a connect() call made while the lifecycle state is CONNECTING,
\* AUTHENTICATING or CONNECTED is rejected at once and leaves the lifecycle
\* state, the stored credential, the transport and every pending operation as
\* they were; and at no time is more than one transport open.
C12_ConnectRefusedWhileLive ==
    /\ [][nConnects' # nConnects /\ webreplState # "DISCONNECTED"
            => /\ connCall'[nConnects'] = "rejected"
               /\ UNCHANGED <<webreplState, password, wsRef, sock, callState, hostState,
                              pendingFileOp, pendingCommands, rawReplResolve>>]_vars
    /\ [](Cardinality(LiveSocks) <= 1)

\* connect() attempt a is in flight: its socket is the current one and the
\* lifecycle state is CONNECTING or AUTHENTICATING
InFlight(a) ==
    /\ a = wsRef
    /\ connCall[a] = "pending"
    /\ webreplState \in {"CONNECTING", "AUTHENTICATING"}

\* the step delivers a text frame that holds the device's denial and none of
\* the prompts
DenialFrame ==
    \E n \in 1..MaxFrame :
        /\ n <= Len(devStream)
        /\ Includes(SubSeq(devStream, 1, n), ACCESS_DENIED)
        /\ ~IncludesAny(SubSeq(devStream, 1, n), {PASSWORD_PROMPT, PROMPT3, RAW_BANNER})
        /\ DeviceSendText(n)

\* C13: when the transport of the connect() in flight reports an error, the
\* call is rejected; when it closes, or the device sends its denial, the call
\* is rejected and the lifecycle state becomes DISCONNECTED, in which connect()
\* is accepted again.
C13_FailedConnectRejects ==
    [][\A a \in Attempts :
          /\ InFlight(a) /\ ErrorEvent(a) => connCall'[a] = "rejected"
          /\ InFlight(a) /\ (CloseEvent(a) \/ DenialFrame)
               => connCall'[a] = "rejected" /\ webreplState' = "DISCONNECTED"]_vars

\* C14: once the success banner without raw mode has been handled (Ctrl-A
\* sent, connect() waiting on its checkReady interval), connect() is settled
\* after a bounded wait whether or not the device ever announces raw mode.
C14_RawEntryBounded ==
    \A a \in Attempts :
        (connCall[a] = "pending" /\ checkReady[a]) ~> (connCall[a] # "pending")

\* the step delivers, to the connect() in flight, a text frame that holds the
\* raw-mode banner and no password prompt
RawGreetingFrame ==
    \E n \in 1..MaxFrame :
        /\ n <= Len(devStream)
        /\ Includes(SubSeq(devStream, 1, n), RAW_BANNER)
        /\ ~Includes(SubSeq(devStream, 1, n), PASSWORD_PROMPT)
        /\ DeviceSendText(n)

\* C15: when the greeting handled by the connect() in flight reports raw mode,
\* that step resolves connect() with the lifecycle state CONNECTED and the
\* sub-state RAW_REPL_READY and sends nothing; and while a connect() is in
\* flight Ctrl-A is sent only by a step that leaves the sub-state ENTERING_RAW,
\* so it is never sent during a connect that ends on a raw-mode greeting.
C15_RawGreetingSendsNoCtrlA ==
    [][\A a \in Attempts :
          /\ InFlight(a) /\ RawGreetingFrame
               => /\ connCall'[a] = "resolved"
                  /\ webreplState' = "CONNECTED"
                  /\ replState' = "RAW_REPL_READY"
                  /\ sent' = <<>>
          /\ InFlight(a) /\ Includes(sent', CTRL_A)
               => replState' = "ENTERING_RAW" /\ connCall'[a] = "pending"]_vars

\* C15 witness: connect() has just been resolved by a raw-mode greeting: no
\* interval or entry timer was started, nothing was forwarded or buffered.
C15_Witness ==
    \E a \in Attempts :
        /\ connCall[a] = "resolved" /\ a = wsRef
        /\ webreplState = "CONNECTED" /\ replState = "RAW_REPL_READY"
        /\ ~checkReady[a] /\ entryTimer[a] = -1
        /\ devMode = "raw" /\ devStream = <<>>
        /\ dataEvents = <<>> /\ rawReplBuffer = <<>> /\ sent = <<>>

\* the step delivers a text frame that holds the password prompt
PasswordFrame ==
    \E n \in 1..MaxFrame :
        /\ n <= Len(devStream)
        /\ Includes(SubSeq(devStream, 1, n), PASSWORD_PROMPT)
        /\ DeviceSendText(n)

\* C16: the step that handles the password prompt for the connect() in flight
\* moves to AUTHENTICATING and sends the stored credential followed by a
\* carriage return; the step that then handles the device's denial rejects
\* connect(), closes the transport and ends in DISCONNECTED.
C16_DenialRejectsAndCloses ==
    [][\A a \in Attempts :
          /\ InFlight(a) /\ PasswordFrame
               => /\ webreplState' = "AUTHENTICATING"
                  /\ sent' = <<password, CR>>
                  /\ connCall'[a] = "pending"
          /\ InFlight(a) /\ webreplState = "AUTHENTICATING" /\ DenialFrame
               => /\ connCall'[a] = "rejected"
                  /\ sock[a] = "open" /\ sock'[a] = "closing"
                  /\ webreplState' = "DISCONNECTED"]_vars

\* C16 witness: the prompt was answered with the stored credential in this
\* step, the state is AUTHENTICATING with connect() pending on an open
\* transport, and the device's denial is the next frame to be handled.
C16_Witness ==
    \E a \in Attempts :
        /\ a = nConnects /\ InFlight(a) /\ sock[a] = "open" /\ wsRef = a
        /\ webreplState = "AUTHENTICATING"
        /\ password \in Credentials /\ sent = <<password, CR>>
        /\ devStream = <<ACCESS_DENIED>>

\* C17: interrupt() hands exactly one Ctrl-C to the socket when the lifecycle
\* state is CONNECTED and nothing otherwise, and in either case leaves the
\* lifecycle state, the sub-state and every pending call and its registrations
\* as they were.
C17_InterruptSendsOneByte ==
    [][Interrupt
         => /\ sent' = IF webreplState = "CONNECTED" THEN <<CTRL_C>> ELSE <<>>
            /\ UNCHANGED <<webreplState, replState, callState, callResult, hostState,
                           rawReplResolve, pendingFileOp, pendingCommands, microQ,
                           promptTimer, fileTimer, hostTimer>>]_vars

\* C17 witness: interrupt() has just been called while an execution is
\* streaming: one Ctrl-C was sent, the call is still pending, no getPrompt()
\* was started by the step.
C17_Witness ==
    /\ sent = <<CTRL_C>>
    /\ webreplState = "CONNECTED" /\ replState = "RUNNING"
    /\ \A c \in Calls : promptTimer[c] # GetPromptTimeoutMs
    /\ \E c \in Calls : IsExec(c) /\ callState[c] = "submitted" /\ rawReplResolve = c

\* the frame f is a success response whose payload does not have the declared
\* length, or that is too short to declare one
BadGetFrame(f) ==
    /\ f.status = WEBREPL_RESP_OK
    /\ ~f.hasLen \/ f.payload # f.declared

\* C18: while a legacy get is pending, the step that handles a success
\* response with a length mismatch, or one too short to carry a length,
\* rejects that get and clears the slot - in the direct connection and in the
\* webview bridge alike.
C18_BadGetResponseRejects ==
    [][\A f \in BinFrames :
          /\ DeviceSendBinary(f) /\ BadGetFrame(f)
          /\ webreplState = "CONNECTED"
          /\ pendingFileOp.call # NoCall /\ pendingFileOp.type = "get"
          /\ callState[pendingFileOp.call] = "submitted"
          => /\ callState'[pendingFileOp.call] = "rejected"
             /\ pendingFileOp'.call = NoCall]_vars

\* the direct get/put call c has timed out: rejected by its 30 s timer
TimedOutFileOp(c) ==
    /\ callKind[c] \in FileKinds
    /\ callState[c] = "rejected" /\ callResult[c] = ERR_TIMEOUT

\* C19: on the direct connection, the step that handles the device's response
\* to a get/put request whose call has already timed out settles no call,
\* whatever has been started since.
C19_LateResponseIsNoOp ==
    [][\A f \in BinFrames :
          /\ impl = "direct"
          /\ DeviceSendBinary(f)
          /\ TimedOutFileOp(Head(devFile).call)
          => callState' = callState /\ callResult' = callResult]_vars

\* ------------------------------------------- channelized handler (readFile)
ERR_CB_TIMEOUT == "File read timeout"
ERR_CB_TFTP == "TFTP error"
ERR_CB_NO_SEND == "Send callback not set"
ERR_CB_WRITE_TIMEOUT == "File write timeout"
ERR_CB_LIST == "List directory error"
ERR_CB_LIST_TIMEOUT == "List directory timeout"
ERR_CB_DELETE == "Delete error"
ERR_CB_MKDIR == "Mkdir error"
ERR_CB_RENAME == "Rename error"
ERR_CB_META_TIMEOUT == "timeout"

\* readFile's handler: data.length === 0 || data.length < transfer.blockSize
CbIsLast(len, blockSize) == len = 0 \/ len < blockSize

\* transfer.data[blockNum] = block on a JavaScript array: slots between the
\* old length and blockNum stay unassigned
CbSetAt(d, num, len) ==
    [j \in 1..(IF Len(d) > num + 1 THEN Len(d) ELSE num + 1) |->
        IF j = num + 1 THEN len ELSE IF j <= Len(d) THEN d[j] ELSE Hole]

CbHasHole(d) == \E j \in 1..Len(d) : d[j] = Hole

\* transfer.data.reduce((sum, block) => sum + block.length, 0): reduce skips
\* unassigned slots
RECURSIVE CbTotalSize(_)
CbTotalSize(d) ==
    IF d = <<>> THEN 0
    ELSE (IF Head(d) = Hole THEN 0 ELSE Head(d)) + CbTotalSize(Tail(d))

\* for (const block of transfer.data) { result.set(block, offset); offset += block.length }
\* on an array without unassigned slots: the blocks from index j on, each
\* with the offset it is written at
RECURSIVE CbPlace(_, _, _)
CbPlace(d, j, offset) ==
    IF j > Len(d) THEN <<>>
    ELSE <<[off |-> offset, num |-> j - 1, len |-> d[j]]>> \o CbPlace(d, j + 1, offset + d[j])

\* resolve / reject of the promise of operation r: a settled promise stays as it is
CbResolve(o, d) ==
    IF o.state = "pending"
      THEN [o EXCEPT !.state = "resolved", !.size = CbTotalSize(d), !.chunks = CbPlace(d, 1, 0)]
      ELSE o

CbReject(o, e) ==
    IF o.state = "pending" THEN [o EXCEPT !.state = "rejected", !.err = e] ELSE o

\* What a run of callbacks reads and writes; thrown: a callback has thrown.
CbSt ==
    [op |-> cbOp, tm |-> cbTimer, tr |-> tftpTransfers, out |-> <<>>, thrown |-> FALSE]

\* this.tftpTransfers.delete(transferId)
CbDelete(tr, path) == [tr EXCEPT ![path] = 0]

\* The callback readFile registers for operation r, called with the frame f.
\* sendMessage throws when no send callback is set; result.set throws on an
\* unassigned slot.
CbReadHandler(st, r, f) ==
    IF f.opcode = WCB_DATA THEN
        LET d == CbSetAt(st.op[r].data, f.num, f.len)
            s1 == [st EXCEPT !.op[r].data = d]
            s2 == [s1 EXCEPT !.out = Append(@, <<WCB_FILES, WCB_ACK, f.num>>)]
            s3 == [s2 EXCEPT !.tm[r] = -1, !.op[r].complete = TRUE]
        IN  IF ~sendCallback THEN [s1 EXCEPT !.thrown = TRUE]
            ELSE IF ~CbIsLast(f.len, CbBlockSize) THEN s2
            ELSE IF CbHasHole(d) THEN [s3 EXCEPT !.thrown = TRUE]
            ELSE [s3 EXCEPT !.tr = CbDelete(@, st.op[r].path),
                            !.op[r] = CbResolve(@, d)]
    ELSE IF f.opcode = WCB_ERROR THEN
        [st EXCEPT !.tm[r] = -1,
                   !.tr = CbDelete(@, st.op[r].path),
                   !.op[r] = CbReject(@, <<ERR_CB_TFTP, f.arg>>)]
    ELSE st

\* Math.ceil(n / d)
CbCeilDiv(n, d) == (n + d - 1) \div d

\* data.slice(start, Math.min(start + blockSize, data.length)).length for block k
CbSliceLen(bytes, k) ==
    LET start == k * CbBlockSize
        end == IF start + CbBlockSize < bytes THEN start + CbBlockSize ELSE bytes
    IN  IF end > start THEN end - start ELSE 0

\* resolve() of a promise without a value
CbResolveVoid(o) == IF o.state = "pending" THEN [o EXCEPT !.state = "resolved"] ELSE o

\* The callback writeFile registers for operation r: every ACK advances
\* currentBlock, whatever block number it carries.
CbWriteHandler(st, r, f) ==
    IF f.opcode = WCB_ACK THEN
        LET cur == st.op[r].currentBlock + 1
            s1 == [st EXCEPT !.op[r].currentBlock = cur]
        IN  IF cur < CbCeilDiv(st.op[r].bytes, CbBlockSize)
              THEN IF sendCallback
                     THEN [s1 EXCEPT !.out = Append(@, <<WCB_FILES, WCB_DATA, cur,
                                                         CbSliceLen(st.op[r].bytes, cur)>>)]
                     ELSE [s1 EXCEPT !.thrown = TRUE]
              ELSE [s1 EXCEPT !.tm[r] = -1, !.op[r] = CbResolveVoid(@)]
    ELSE IF f.opcode = WCB_ERROR THEN
        [st EXCEPT !.tm[r] = -1, !.op[r] = CbReject(@, <<ERR_CB_TFTP, f.arg>>)]
    ELSE st

\* The callback listDir registers for operation r: resolve(entries || [])
CbListHandler(st, r, f) ==
    IF f.opcode = WCB_LIST_DIR THEN
        [st EXCEPT !.tm[r] = -1,
                   !.op[r] = IF @.state = "pending"
                               THEN [@ EXCEPT !.state = "resolved", !.entries = f.arg]
                               ELSE @]
    ELSE IF f.opcode = WCB_ERROR THEN
        [st EXCEPT !.tm[r] = -1, !.op[r] = CbReject(@, <<ERR_CB_LIST, f.arg>>)]
    ELSE st

\* the message prefix of the error deleteFile, mkdir and rename reject with
CbMetaError(kind) ==
    IF kind = "delete" THEN ERR_CB_DELETE
    ELSE IF kind = "mkdir" THEN ERR_CB_MKDIR
    ELSE ERR_CB_RENAME

\* A callback without the ERROR branch: C24 does not hold of it.
CbMetaHandlerAckOnly(st, r, f) ==
    IF f.opcode = WCB_ACK THEN
        [st EXCEPT !.tm[r] = -1, !.op[r] = CbResolveVoid(@)]
    ELSE st

\* The callback deleteFile, mkdir and rename register for operation r: any
\* ACK resolves.
CbMetaHandler(st, r, f) ==
    IF f.opcode = WCB_ACK THEN
        [st EXCEPT !.tm[r] = -1, !.op[r] = CbResolveVoid(@)]
    ELSE IF f.opcode = WCB_ERROR THEN
        [st EXCEPT !.tm[r] = -1,
                   !.op[r] = CbReject(@, <<CbMetaError(st.op[r].kind), f.arg>>)]
    ELSE st

CbMetaKinds == {"delete", "mkdir", "rename"}

\* the callback h of the file channel called with the frame f
CbCallback(st, h, f) ==
    IF h.kind = "read" THEN CbReadHandler(st, h.op, f)
    ELSE IF h.kind = "write" THEN CbWriteHandler(st, h.op, f)
    ELSE IF h.kind = "list" THEN CbListHandler(st, h.op, f)
    ELSE IF h.kind \in CbMetaKinds THEN CbMetaHandler(st, h.op, f)
    ELSE st

\* handleMessage: the callbacks of the channel are called in registration
\* order inside one try block, so a throw skips those that follow
RECURSIVE CbHandleMessage(_, _, _)
CbHandleMessage(hs, st, f) ==
    IF hs = <<>> \/ st.thrown THEN st
    ELSE CbHandleMessage(Tail(hs), CbCallback(st, Head(hs), f), f)

\* the DATA frames of a file of full blocks followed by one block of last bytes
CbFileBlocks(full, last) ==
    [j \in 1..(full + 1) |->
        [opcode |-> WCB_DATA, num |-> j - 1, len |-> IF j <= full THEN CbBlockSize ELSE last,
         arg |-> <<>>]]

\* What the device queues for a read request: the blocks of the file,
\* numbered from 0, or an ERROR frame, or nothing.
CbResponses ==
    {CbFileBlocks(full, last) : full \in 0..MaxFull, last \in CbLastLens}
      \cup {<<[opcode |-> WCB_ERROR, num |-> 0, len |-> 0, arg |-> <<"ENOENT">>]>>, <<>>}

\* setSendCallback
CbSetSendCallback ==
    /\ ~sendCallback
    /\ sendCallback' = TRUE
    /\ cbSent' = <<>>
    /\ rxRaw' = NoRaw /\ UNCHANGED <<connectionVars, auxVars, cbStore, cbPeer, channelCallbacks, tftpTransfers, cbOp, cbTimer, cbDev>>

\* readFile(path) as operation r: the transfer record is stored, the timeout
\* armed, the callback registered and the request sent; a throw of
\* sendMessage rejects the promise and leaves the rest in place.
CbReadFileCall(r, path) ==
    /\ cbOp[r].state = "none"
    /\ \A q \in CbOps : q < r => cbOp[q].state # "none"
    /\ tftpTransfers' = [tftpTransfers EXCEPT ![path] = r]
    /\ cbTimer' = [cbTimer EXCEPT ![r] = CbTransferTimeoutMs]
    /\ channelCallbacks' = Append(channelCallbacks, [kind |-> "read", op |-> r])
    /\ IF sendCallback
         THEN /\ cbOp' = [cbOp EXCEPT ![r] = [CbNoOp EXCEPT !.kind = "read", !.state = "pending",
                                                            !.path = path]]
              /\ cbSent' = <<<<WCB_FILES, WCB_READ_REQUEST, path>>>>
         ELSE /\ cbOp' = [cbOp EXCEPT ![r] = [CbNoOp EXCEPT !.kind = "read", !.state = "rejected",
                                                            !.path = path, !.err = <<ERR_CB_NO_SEND>>]]
              /\ cbSent' = <<>>
    /\ rxRaw' = NoRaw /\ UNCHANGED <<connectionVars, auxVars, sendCallback>>

\* readFile against a device that answers the request with a stream of blocks
CbReadFile(r, path) ==
    /\ CbReadFileCall(r, path)
    /\ IF sendCallback
         THEN \E resp \in CbResponses : cbDev' = cbDev \o resp
         ELSE cbDev' = cbDev
    /\ UNCHANGED <<cbStore, cbPeer>>

\* The device sends the next frame it holds; handleMessage decodes it and
\* calls the callbacks of the file channel.
CbDeliver ==
    /\ cbDev # <<>>
    /\ LET st == CbHandleMessage(channelCallbacks, CbSt, Head(cbDev))
       IN  /\ cbOp' = st.op
           /\ cbTimer' = st.tm
           /\ tftpTransfers' = st.tr
           /\ cbSent' = st.out
    /\ rxRaw' = NoRaw /\ UNCHANGED <<connectionVars, auxVars, sendCallback, channelCallbacks>>

\* a frame of the stream is delivered
CbDeviceSend ==
    /\ CbDeliver
    /\ cbDev' = Tail(cbDev)
    /\ UNCHANGED <<cbStore, cbPeer>>

\* The 30 s timeout of readFile operation r expires.
CbReadTimeout(r) ==
    /\ cbTimer[r] = 0
    /\ cbTimer' = [cbTimer EXCEPT ![r] = -1]
    /\ tftpTransfers' = CbDelete(tftpTransfers, cbOp[r].path)
    /\ cbOp' = [cbOp EXCEPT ![r] = CbReject(@, <<ERR_CB_TIMEOUT, @.path>>)]
    /\ cbSent' = <<>>
    /\ rxRaw' = NoRaw /\ UNCHANGED <<connectionVars, auxVars, cbStore, cbPeer, sendCallback, channelCallbacks, cbDev>>

\* Time passes until the next timeout of the handler is due.
CbTick ==
    /\ \A r \in CbOps : cbTimer[r] # 0
    /\ \E r \in CbOps :
          /\ cbTimer[r] > 0
          /\ \A q \in CbOps : cbTimer[q] > 0 => cbTimer[r] <= cbTimer[q]
          /\ cbTimer' = [q \in CbOps |-> IF cbTimer[q] > 0 THEN cbTimer[q] - cbTimer[r]
                                                           ELSE cbTimer[q]]
    /\ cbSent' = <<>>
    /\ rxRaw' = NoRaw /\ UNCHANGED <<connectionVars, auxVars, cbStore, cbPeer, sendCallback, channelCallbacks, tftpTransfers, cbOp, cbDev>>

\* the caller serialises: no operation is started while one is pending
CbIdle == \A r \in CbOps : cbOp[r].state # "pending"

CbNext ==
    \/ CbSetSendCallback
    \/ \E r \in CbOps, path \in CbPaths : CbIdle /\ CbReadFile(r, path)
    \/ CbDeviceSend
    \/ \E r \in CbOps : CbReadTimeout(r)
    \/ CbTick

\* The channelized handler from construction, with a device that answers
\* each read request.
CbSpec == Init /\ [][CbNext]_vars

\* the bytes of the blocks d[1] .. d[j - 1]
RECURSIVE BytesBefore(_, _)
BytesBefore(d, j) == IF j <= 1 THEN 0 ELSE d[j - 1] + BytesBefore(d, j - 1)

\* the result of operation record o is the blocks d, each once, in ascending
\* block-number order, laid end to end
IsConcatenation(o, d) ==
    /\ Len(o.chunks) = Len(d)
    /\ \A j \in 1..Len(d) :
          o.chunks[j] = [off |-> BytesBefore(d, j), num |-> j - 1, len |-> d[j]]
    /\ o.size = BytesBefore(d, Len(d) + 1)

\* three 4096-byte blocks followed by one 512-byte block
ExampleBlocks == <<CbBlockSize, CbBlockSize, CbBlockSize, 512>>

\* C20: the step that delivers a data block to the pending readFile resolves
\* it when the block is shorter than 4096 bytes (a zero-length block
\* included) and leaves it pending when the block is full; the result is the
\* blocks received, in ascending block-number order, laid end to end - 12,800
\* bytes for three full blocks and one of 512; and a readFile is resolved by
\* no other step.
C20_ReadResolvesOnShortBlock ==
    [][\A r \in CbOps :
          /\ CbDeviceSend /\ cbOp[r].state = "pending" /\ Head(cbDev).opcode = WCB_DATA
               => LET f == Head(cbDev)
                      d == CbSetAt(cbOp[r].data, f.num, f.len)
                  IN  /\ f.len = CbBlockSize => cbOp'[r].state = "pending"
                      /\ f.len < CbBlockSize
                           => /\ cbOp'[r].state = "resolved"
                              /\ ~CbHasHole(d) => IsConcatenation(cbOp'[r], d)
                              /\ d = ExampleBlocks => cbOp'[r].size = 12800
          /\ cbOp[r].state = "pending" /\ cbOp'[r].state = "resolved"
               => /\ CbDeviceSend
                  /\ Head(cbDev).opcode = WCB_DATA /\ Head(cbDev).len < CbBlockSize]_vars

\* C21: the step that delivers a data block while a readFile is pending hands
\* exactly one ACK to sendMessage, carrying that block's number - also when
\* earlier reads on the handler have completed, failed or timed out.
C21_OneAckPerBlock ==
    [][/\ CbDeviceSend /\ Head(cbDev).opcode = WCB_DATA
       /\ \E r \in CbOps : cbOp[r].state = "pending"
       => cbSent' = <<<<WCB_FILES, WCB_ACK, Head(cbDev).num>>>>]_vars

\* ------------------------------ channelized handler, all file operations
\* the payload sizes a caller writes: empty, one byte, exactly one block,
\* several blocks and a remainder
CbSizes == {0, 1, CbBlockSize, MaxFull * CbBlockSize + 512}
\* what a directory listing holds
CbEntries == <<"main.py">>
\* the message of the device's ERROR frame
CbDeviceError == <<"EIO">>

CbFrame(opcode, num, len, arg) == [opcode |-> opcode, num |-> num, len |-> len, arg |-> arg]

\* The device follows the client's own block and termination rules: it
\* receives a write as readFile receives (blocks stored by number, each
\* acknowledged, complete on a short block) and serves a read as writeFile
\* sends (block 0 at once, the next block on each ACK, ceil(bytes / 4096)
\* blocks).  ok: it accepts the request.  ps is [peer, store, q].
CbPeerTakes(ps, m, ok) ==
    IF m[2] \in {WCB_READ_REQUEST, WCB_WRITE_REQUEST, WCB_LIST_DIR, WCB_DELETE, WCB_MKDIR,
                 WCB_RENAME} /\ ~ok THEN
        [ps EXCEPT !.q = Append(@, CbFrame(WCB_ERROR, 0, 0, CbDeviceError))]
    ELSE IF m[2] = WCB_WRITE_REQUEST THEN
        [ps EXCEPT !.peer = [CbPeerIdle EXCEPT !.mode = "recv", !.path = m[3]],
                   !.store[m[3]] = <<>>]
    ELSE IF m[2] = WCB_DATA THEN
        IF ps.peer.mode = "recv"
          THEN LET d == CbSetAt(ps.peer.data, m[3], m[4])
               IN  [ps EXCEPT !.peer = IF CbIsLast(m[4], CbBlockSize)
                                         THEN CbPeerIdle ELSE [@ EXCEPT !.data = d],
                              !.store[ps.peer.path] = d,
                              !.q = Append(@, CbFrame(WCB_ACK, m[3], 0, <<>>))]
          ELSE ps
    ELSE IF m[2] = WCB_READ_REQUEST THEN
        IF ps.store[m[3]] = <<Hole>>
          THEN [ps EXCEPT !.q = Append(@, CbFrame(WCB_ERROR, 0, 0, CbDeviceError))]
          ELSE LET bytes == CbTotalSize(ps.store[m[3]])
               IN  [ps EXCEPT !.peer = [CbPeerIdle EXCEPT !.mode = "serve", !.path = m[3],
                                                          !.bytes = bytes,
                                                          !.total = CbCeilDiv(bytes, CbBlockSize)],
                              !.q = Append(@, CbFrame(WCB_DATA, 0, CbSliceLen(bytes, 0), <<>>))]
    ELSE IF m[2] = WCB_ACK THEN
        IF ps.peer.mode = "serve"
          THEN IF ps.peer.cur + 1 < ps.peer.total
                 THEN [ps EXCEPT !.peer.cur = @ + 1,
                                 !.q = Append(@, CbFrame(WCB_DATA, ps.peer.cur + 1,
                                                         CbSliceLen(ps.peer.bytes, ps.peer.cur + 1),
                                                         <<>>))]
                 ELSE [ps EXCEPT !.peer = CbPeerIdle]
          ELSE ps
    ELSE IF m[2] = WCB_LIST_DIR THEN
        [ps EXCEPT !.q = Append(@, CbFrame(WCB_LIST_DIR, 0, 0, CbEntries))]
    ELSE IF m[2] \in {WCB_DELETE, WCB_MKDIR, WCB_RENAME} THEN
        \* the acknowledgement of a request carries no block number
        [ps EXCEPT !.store[m[3]] = IF m[2] = WCB_DELETE THEN <<Hole>> ELSE @,
                   !.q = Append(@, CbFrame(WCB_ACK, Hole, 0, <<>>))]
    ELSE ps

RECURSIVE CbPeerReact(_, _, _)
CbPeerReact(ps, msgs, ok) ==
    IF msgs = <<>> THEN ps
    ELSE CbPeerReact(CbPeerTakes(ps, Head(msgs), ok), Tail(msgs), ok)

\* the device has received what this step sent; q is what it still had to send
CbPeerGets(q, ok) ==
    LET ps == CbPeerReact([peer |-> cbPeer, store |-> cbStore, q |-> q], cbSent', ok)
    IN  /\ cbPeer' = ps.peer
        /\ cbStore' = ps.store
        /\ cbDev' = ps.q

\* the operation r is the next one the caller makes
CbNextOp(r) ==
    /\ cbOp[r].state = "none"
    /\ \A q \in CbOps : q < r => cbOp[q].state # "none"

\* writeFile(path, data) as operation r, data.length = bytes: the timeout is
\* armed, the callback registered, the request and block 0 sent.
CbWriteFileCall(r, path, bytes) ==
    /\ CbNextOp(r)
    /\ cbTimer' = [cbTimer EXCEPT ![r] = CbTransferTimeoutMs]
    /\ channelCallbacks' = Append(channelCallbacks, [kind |-> "write", op |-> r])
    /\ IF sendCallback
         THEN /\ cbOp' = [cbOp EXCEPT ![r] = [CbNoOp EXCEPT !.kind = "write", !.state = "pending",
                                                            !.path = path, !.bytes = bytes]]
              /\ cbSent' = << <<WCB_FILES, WCB_WRITE_REQUEST, path, bytes>>,
                              <<WCB_FILES, WCB_DATA, 0, CbSliceLen(bytes, 0)>> >>
         ELSE /\ cbOp' = [cbOp EXCEPT ![r] = [CbNoOp EXCEPT !.kind = "write", !.state = "rejected",
                                                            !.path = path, !.bytes = bytes,
                                                            !.err = <<ERR_CB_NO_SEND>>]]
              /\ cbSent' = <<>>
    /\ rxRaw' = NoRaw /\ UNCHANGED <<connectionVars, auxVars, sendCallback, tftpTransfers>>

\* the opcode of the request of listDir, deleteFile, mkdir and rename
CbRequestOpcode(kind) ==
    IF kind = "list" THEN WCB_LIST_DIR
    ELSE IF kind = "delete" THEN WCB_DELETE
    ELSE IF kind = "mkdir" THEN WCB_MKDIR
    ELSE WCB_RENAME

\* listDir, deleteFile, mkdir or rename as operation r: the 10 s timeout is
\* armed, the callback registered and the request sent.
CbMetaCall(r, kind, path) ==
    /\ CbNextOp(r)
    /\ cbTimer' = [cbTimer EXCEPT ![r] = CbMetaTimeoutMs]
    /\ channelCallbacks' = Append(channelCallbacks, [kind |-> kind, op |-> r])
    /\ IF sendCallback
         THEN /\ cbOp' = [cbOp EXCEPT ![r] = [CbNoOp EXCEPT !.kind = kind, !.state = "pending",
                                                            !.path = path]]
              /\ cbSent' = <<<<WCB_FILES, CbRequestOpcode(kind), path>>>>
         ELSE /\ cbOp' = [cbOp EXCEPT ![r] = [CbNoOp EXCEPT !.kind = kind, !.state = "rejected",
                                                            !.path = path,
                                                            !.err = <<ERR_CB_NO_SEND>>]]
              /\ cbSent' = <<>>
    /\ rxRaw' = NoRaw /\ UNCHANGED <<connectionVars, auxVars, sendCallback, tftpTransfers>>

\* The timeout of operation r expires: readFile's callback also deletes the
\* transfer record, the others only reject.
CbOpTimeout(r) ==
    /\ cbTimer[r] = 0
    /\ cbTimer' = [cbTimer EXCEPT ![r] = -1]
    /\ tftpTransfers' = IF cbOp[r].kind = "read" THEN CbDelete(tftpTransfers, cbOp[r].path)
                                                 ELSE tftpTransfers
    /\ cbOp' = [cbOp EXCEPT ![r] = CbReject(@,
                   <<IF @.kind = "read" THEN ERR_CB_TIMEOUT
                     ELSE IF @.kind = "write" THEN ERR_CB_WRITE_TIMEOUT
                     ELSE IF @.kind = "list" THEN ERR_CB_LIST_TIMEOUT
                     ELSE ERR_CB_META_TIMEOUT, @.path>>)]
    /\ cbSent' = <<>>
    /\ rxRaw' = NoRaw /\ UNCHANGED <<connectionVars, auxVars, cbStore, cbPeer, sendCallback, channelCallbacks, cbDev>>

\* An operation is started and the device takes what was sent.
CbStart(r) ==
    /\ CbIdle
    /\ \E path \in CbPaths, ok \in BOOLEAN :
          /\ \/ CbReadFileCall(r, path)
             \/ \E bytes \in CbSizes : CbWriteFileCall(r, path, bytes)
             \/ \E kind \in CbMetaKinds \cup {"list"} : CbMetaCall(r, kind, path)
          /\ CbPeerGets(cbDev, ok)

\* The device's next frame is delivered and the device takes the answer.
CbExchange ==
    /\ CbDeliver
    /\ CbPeerGets(Tail(cbDev), TRUE)

CbOpsNext ==
    \/ CbSetSendCallback
    \/ \E r \in CbOps : CbStart(r)
    \/ CbExchange
    \/ \E r \in CbOps : CbOpTimeout(r)
    \/ CbTick

\* The channelized handler from construction with a device that follows the
\* client's rules; the caller starts an operation when none is pending.
CbOpsSpec == Init /\ [][CbOpsNext]_vars

\* the number of the last block of a write of bytes bytes (block 0 when empty)
LastBlock(bytes) == IF bytes = 0 THEN 0 ELSE CbCeilDiv(bytes, CbBlockSize) - 1

\* C22: writeFile sends the write request with the total length and then
\* block 0 in the step of the call; while it is pending it moves on to block
\* k + 1 only in the step that delivers the ACK of block k, and it is
\* resolved only by the step that delivers the ACK of its last block.
C22_WritePacedByAcks ==
    [][\A r \in CbOps :
          /\ cbOp[r].state = "none" /\ cbOp'[r].kind = "write" /\ cbOp'[r].state = "pending"
               => cbSent' = << <<WCB_FILES, WCB_WRITE_REQUEST, cbOp'[r].path, cbOp'[r].bytes>>,
                               <<WCB_FILES, WCB_DATA, 0, CbSliceLen(cbOp'[r].bytes, 0)>> >>
          /\ cbOp[r].kind = "write" /\ cbOp[r].state = "pending"
             /\ cbOp'[r].currentBlock # cbOp[r].currentBlock
               => /\ CbExchange /\ Head(cbDev).opcode = WCB_ACK
                  /\ Head(cbDev).num = cbOp[r].currentBlock
                  /\ cbOp'[r].currentBlock = cbOp[r].currentBlock + 1
          /\ cbOp[r].kind = "write" /\ cbOp[r].state = "pending" /\ cbOp'[r].state = "resolved"
               => /\ CbExchange /\ Head(cbDev).opcode = WCB_ACK
                  /\ Head(cbDev).num = LastBlock(cbOp[r].bytes)]_vars

\* the frame is the device's answer to a request of deleteFile, mkdir or
\* rename: an ACK without a block number
IsRequestAck(f) == f.opcode = WCB_ACK /\ f.num = Hole

\* C30: a pending deleteFile, mkdir or rename is resolved only by the step
\* that delivers the acknowledgement of a request, never by the ACK of a data
\* block; and the step that delivers the acknowledgement of a request
\* makes no file write whose request was sent send a block.
C30_MetaAckIsItsOwn ==
    [][\A r \in CbOps :
          /\ cbOp[r].kind \in CbMetaKinds /\ cbOp[r].state = "pending"
             /\ cbOp'[r].state = "resolved"
               => CbExchange /\ IsRequestAck(Head(cbDev))
          /\ cbOp[r].kind = "write" /\ cbOp[r].err # <<ERR_CB_NO_SEND>>
             /\ CbExchange /\ IsRequestAck(Head(cbDev))
               => cbSent' = <<>>]_vars

\* the timeout an operation of this kind is given
OwnTimeout(kind) == IF kind \in {"read", "write"} THEN CbTransferTimeoutMs ELSE CbMetaTimeoutMs

\* the frame f is one that ends a pending operation of this kind
EndsOperation(kind, f) ==
    \/ f.opcode = WCB_ERROR
    \/ kind = "read" /\ f.opcode = WCB_DATA /\ f.len < CbBlockSize
    \/ kind \in CbMetaKinds \cup {"write"} /\ f.opcode = WCB_ACK
    \/ kind = "list" /\ f.opcode = WCB_LIST_DIR

\* C24: for every pending channelized operation, the step that delivers an
\* ERROR frame rejects it with an error that carries the device's message and
\* disarms its timeout; its timeout is armed by the call with 30 s for a
\* transfer and 10 s for the others, stays armed across every step that
\* delivers no frame ending the operation, and rejects the call when it
\* expires.
C24_ErrorOrTimeoutRejects ==
    [][\A r \in CbOps :
          /\ cbOp[r].state = "pending" /\ CbExchange /\ Head(cbDev).opcode = WCB_ERROR
               => /\ cbOp'[r].state = "rejected"
                  /\ Len(cbOp'[r].err) = 2 /\ cbOp'[r].err[2] = Head(cbDev).arg
                  /\ cbTimer'[r] = -1
          /\ cbOp[r].state = "none" /\ cbOp'[r].state = "pending"
               => cbTimer'[r] = OwnTimeout(cbOp'[r].kind)
          /\ cbOp[r].state = "pending" /\ cbTimer[r] >= 0
             /\ ~(CbExchange /\ EndsOperation(cbOp[r].kind, Head(cbDev)))
               => \/ cbOp'[r].state = "pending" /\ cbTimer'[r] >= 0
                  \/ /\ cbTimer[r] = 0 /\ cbTimer'[r] = -1
                     /\ cbOp'[r].state = "rejected" /\ Len(cbOp'[r].err) = 2
                     /\ cbOp'[r].err[2] = cbOp[r].path
          /\ cbOp[r].state = "pending" /\ CbOpTimeout(r) => cbOp'[r].state = "rejected"]_vars

\* C24 witness: the first call was rejected by its 10 s timeout, and the step
\* just taken delivered the device's ERROR frame to the second, a pending
\* transfer, which is rejected with the device's message, its timeout
\* disarmed.
C24_Witness ==
    /\ cbOp[1].kind \in CbMetaKinds \cup {"list"} /\ cbOp[1].state = "rejected"
    /\ Len(cbOp[1].err) = 2 /\ cbOp[1].err[1] = ERR_CB_META_TIMEOUT
    /\ cbOp[2].kind \in {"read", "write"} /\ cbOp[2].state = "rejected"
    /\ Len(cbOp[2].err) = 2 /\ cbOp[2].err[1] = ERR_CB_TFTP
    /\ cbOp[2].err[2] = CbDeviceError
    /\ cbTimer[2] = -1

\* the blocks writeFile sends for a payload of that many bytes
BlocksOf(bytes) ==
    [j \in 1..(IF bytes = 0 THEN 1 ELSE CbCeilDiv(bytes, CbBlockSize)) |-> CbSliceLen(bytes, j - 1)]

\* the first operation on the handler was a put that resolved and the second a
\* get of the same path, and the device took both requests
PutThenGet ==
    /\ cbOp[1].kind = "write" /\ cbOp[1].state = "resolved"
    /\ cbOp[2].kind = "read" /\ cbOp[2].path = cbOp[1].path
    /\ ~(cbOp[2].state = "rejected" /\ cbOp[2].err[1] = ERR_CB_TFTP)

\* the device has sent the whole file and every frame of it was delivered
PeerDone == cbDev = <<>> /\ cbPeer.mode # "serve"

\* C23: when a put resolved and the device serves the file back on a get by
\* the rules the client's put follows, the get completes once the device has
\* served the file, and its result is the blocks of the put, in order, at their
\* offsets.
C23_GetOfPutIsIdentity ==
    PutThenGet =>
        /\ PeerDone => cbOp[2].state = "resolved"
        /\ cbOp[2].state = "resolved" => IsConcatenation(cbOp[2], BlocksOf(cbOp[1].bytes))

Settled == {"resolved", "rejected"}

\* the promise behind the pending-command entry of call c is settled by this
\* step: resolved by the response, or rejected, upon which listDir falls back
EntryCallback(c) ==
    \/ callState[c] \notin Settled /\ callState'[c] \in Settled
    \/ callKind[c] = "listDir" /\ callKind'[c] = "listDirFallback"

\* C25: a pending-command entry leaves the registry only in the step that
\* settles its own promise, and a directory listing is resolved by a response
\* only while it holds the entry, which that step removes; a settled call,
\* on the connection or on the host, is never settled again or changed.
C25_EntryRemovedOnceOnSettle ==
    [][/\ \A t \in ResponseCmds :
             pendingCommands[t] # NoCall /\ pendingCommands'[t] # pendingCommands[t]
               => EntryCallback(pendingCommands[t])
       /\ \A c \in Calls :
             /\ callKind[c] = "listDir" /\ callState[c] \notin Settled
                /\ callState'[c] = "resolved"
                  => pendingCommands["LIST-DIR"] = c /\ pendingCommands'["LIST-DIR"] = NoCall
             /\ callState[c] \in Settled
                  => callState'[c] = callState[c] /\ callResult'[c] = callResult[c]
             /\ hostState[c] \in Settled => hostState'[c] = hostState[c]]_vars

\* C29: a structured frame received while an execution is in AwaitingAck,
\* StreamingStdout or StreamingStderr leaves the sub-state, the stored
\* resolver of the execution and the state of every execute call as they
\* were.
C29_StructuredFrameKeepsExecution ==
    [][\A cmd \in CmdTokens :
          (/\ webreplState = "CONNECTED"
           /\ replState \in ExecStates
           /\ DeviceSendJson(cmd))
          => /\ replState' = replState
             /\ rawReplResolve' = rawReplResolve
             /\ \A c \in Calls : IsExec(c) => callState'[c] = callState[c]]_vars

\* ------------------------------------------------- protocol discrimination
\* 'Content-Length:' and 'content-length:' as character codes
HeaderUpper == <<67, 111, 110, 116, 101, 110, 116, 45, 76, 101, 110, 103, 116, 104, 58>>
HeaderLower == <<99, 111, 110, 116, 101, 110, 116, 45, 108, 101, 110, 103, 116, 104, 58>>

\* A classifier that takes every first byte from 0x40 on for an array head:
\* C26 does not hold of it.
isCBORDataWide(data) ==
    IF Len(data) = 0 THEN FALSE
    ELSE (data[1] >= 64 /\ data[1] <= 159) \/ data[1] = 159

isCBORData(data) ==
    IF Len(data) = 0 THEN FALSE
    ELSE (data[1] >= 128 /\ data[1] <= 159) \/ data[1] = 159

isLegacyWebREPL(data) ==
    IF Len(data) < 2 THEN FALSE
    ELSE data[1] = 87 /\ (data[2] = 65 \/ data[2] = 66)

isDAPMessage(text) == StartsWith(text, HeaderUpper) \/ StartsWith(text, HeaderLower)

\* ProtocolType
LEGACY_WEBREPL == "legacy"
WEBREPL_CB == "wcb"
DAP == "dap"
UNKNOWN == "unknown"

\* detectProtocol(data): data is a string ("text"), an ArrayBuffer ("binary")
\* or anything else
detectProtocol(f) ==
    IF f.kind = "text" THEN
        IF isDAPMessage(f.data) THEN DAP ELSE UNKNOWN
    ELSE IF f.kind = "binary" THEN
        IF isCBORData(f.data) THEN WEBREPL_CB
        ELSE IF isLegacyWebREPL(f.data) THEN LEGACY_WEBREPL
        ELSE UNKNOWN
    ELSE UNKNOWN

\* byte values around the magic bytes and the bounds of the array heads
SampleBytes == {0, 65, 66, 67, 87, 127, 128, 143, 159, 160, 255}

\* binary frames of up to MaxBinLen bytes
MaxBinLen == 2
BinaryData == UNION {[1..n -> SampleBytes] : n \in 0..MaxBinLen}

Prefixes(s) == {SubSeq(s, 1, n) : n \in 0..Len(s)}

\* text frames: the two headers, their prefixes, what follows and precedes
\* them, other capitalisations, and texts that look like binary magic
TextData ==
    Prefixes(HeaderUpper) \cup Prefixes(HeaderLower)
      \cup {h \o <<32, 49, 13, 10>> : h \in {HeaderUpper, HeaderLower}}
      \cup {<<32>> \o h : h \in {HeaderUpper, HeaderLower}}
      \cup {[HeaderUpper EXCEPT ![9] = 108], [HeaderLower EXCEPT ![1] = 67],
            <<87, 65>>, <<87, 66>>, <<128>>, <<123, 125>>}

Frames ==
    [kind : {"binary"}, data : BinaryData] \cup [kind : {"text"}, data : TextData]
      \cup {[kind |-> "other", data |-> <<>>]}

\* a frame arrives and is classified
Detect(f) ==
    /\ rxFrame' = f
    /\ protocol' = detectProtocol(f)
    /\ UNCHANGED notDetectVars

DetectBinary == \E f \in Frames : f.kind = "binary" /\ Detect(f)
DetectText == \E f \in Frames : f.kind = "text" /\ Detect(f)
DetectOther == \E f \in Frames : f.kind = "other" /\ Detect(f)

DetectNext == DetectBinary \/ DetectText \/ DetectOther

\* frames of every kind are classified, one after the other
DetectSpec == Init /\ [][DetectNext]_vars

\* the classifiers that accept the frame, each applied to the kind it is for
Accepting(f) ==
    {n \in {"isLegacyWebREPL", "isCBORData", "isDAPMessage"} :
        \/ n = "isLegacyWebREPL" /\ f.kind = "binary" /\ isLegacyWebREPL(f.data)
        \/ n = "isCBORData" /\ f.kind = "binary" /\ isCBORData(f.data)
        \/ n = "isDAPMessage" /\ f.kind = "text" /\ isDAPMessage(f.data)}

\* C26: every classified frame gets one of the four protocol types; at most
\* one classifier accepts it; a binary frame whose first two bytes are 'W'
\* and 'A' or 'B' is legacy, a binary frame whose first byte is in 0x80..0x9F
\* is channelized, a text frame that starts with the Content-Length header is
\* debug-bridge, and nothing else gets one of these three types.
C26_DiscriminationTotalDisjoint ==
    rxFrame # NoFrame =>
        LET d == rxFrame.data
            legacy == rxFrame.kind = "binary" /\ Len(d) >= 2 /\ d[1] = 87 /\ d[2] \in {65, 66}
            cb == rxFrame.kind = "binary" /\ Len(d) >= 1 /\ d[1] \in 128..159
            dap == rxFrame.kind = "text" /\ Len(d) >= 15
                     /\ SubSeq(d, 1, 15) \in {HeaderUpper, HeaderLower}
        IN  /\ protocol \in {LEGACY_WEBREPL, WEBREPL_CB, DAP, UNKNOWN}
            /\ Cardinality(Accepting(rxFrame)) <= 1
            /\ protocol = LEGACY_WEBREPL <=> legacy
            /\ protocol = WEBREPL_CB <=> cb
            /\ protocol = DAP <=> dap

\* C26 witness: a binary frame with the legacy magic was classified as legacy.
C26_Witness ==
    /\ rxFrame.kind = "binary" /\ isLegacyWebREPL(rxFrame.data)
    /\ protocol = LEGACY_WEBREPL

\* -------------------------------------------------- debug-adapter handler
\* breakpoints of one request, and the ids handed out in all
MaxBps == 2
MaxBpId == 4

\* a breakpoint of a request: with a line, or without
RequestedBreakpoints == {[hasLine |-> FALSE, line |-> 0]} \cup [hasLine : {TRUE}, line : 1..2]

\* the 'breakpoints' argument of a request
BreakpointLists == UNION {[1..n -> RequestedBreakpoints] : n \in 0..MaxBps}

\* bp.line || 0
LineOf(bp) == IF bp.hasLine /\ bp.line # 0 THEN bp.line ELSE 0

\* outgoing sequence numbers of a behaviour
MaxSeq == 4

\* the seq of a request
RequestSeqs == {1, 7}

\* the commands handleRequest has a case for
ImplementedCommands ==
    {"initialize", "launch", "attach", "setBreakpoints", "configurationDone", "threads",
     "stackTrace", "scopes", "variables", "continue", "next", "stepIn", "stepOut", "pause",
     "disconnect"}

\* the commands whose handler only sends the response
AcknowledgedCommands ==
    {"attach", "configurationDone", "threads", "stackTrace", "scopes", "variables", "next",
     "stepIn", "stepOut"}

\* the commands of the requests handled: one of each kind of handler, and
\* 'evaluate', which has no case
DapCommands ==
    {"initialize", "launch", "setBreakpoints", "threads", "continue", "pause", "disconnect",
     "evaluate"}

Requests == [seq : RequestSeqs, command : DapCommands]

\* the sequence counter and the messages handed to the send callback, as a
\* handler leaves them
DapSt == [seq |-> seq, out |-> <<>>]

\* DAPHandler.sendMessage: without a send callback the message is dropped
sendMessage(d, message) ==
    IF dapSendCallback THEN [d EXCEPT !.out = Append(@, message)] ELSE d

\* DAPHandler.sendResponse
sendResponse(d, req) ==
    sendMessage([d EXCEPT !.seq = @ + 1],
                [seq |-> d.seq, type |-> "response", request_seq |-> req.seq,
                 success |-> TRUE, command |-> req.command, event |-> "", message |-> ""])

\* DAPHandler.sendErrorResponse
sendErrorResponse(d, req) ==
    sendMessage([d EXCEPT !.seq = @ + 1],
                [seq |-> d.seq, type |-> "response", request_seq |-> req.seq,
                 success |-> FALSE, command |-> req.command, event |-> "",
                 message |-> "not implemented"])

\* DAPHandler.sendEvent
sendEvent(d, event) ==
    sendMessage([d EXCEPT !.seq = @ + 1],
                [seq |-> d.seq, type |-> "event", request_seq |-> 0,
                 success |-> FALSE, command |-> "", event |-> event, message |-> ""])

\* the handler of req has run to its end and leaves d
Handled(req, d) ==
    /\ d.seq <= MaxSeq + 1
    /\ request' = req
    /\ seq' = d.seq
    /\ dapOut' = d.out
    /\ sentSeqs' = sentSeqs \o [i \in 1..Len(d.out) |-> d.out[i].seq]

\* DAPHandler.setSendCallback
DapSetSendCallback ==
    /\ ~dapSendCallback
    /\ dapSendCallback' = TRUE
    /\ request' = NoRequest
    /\ dapOut' = <<>>
    /\ UNCHANGED <<notDapVars, breakpoints, breakpointIdCounter, seq, initialized, stopped,
                   sentSeqs, assignedIds>>

\* DAPHandler.handleInitialize: the response, the 'initialized' event, then
\* the flag
handleInitialize(req) ==
    /\ Handled(req, sendEvent(sendResponse(DapSt, req), "initialized"))
    /\ initialized' = TRUE
    /\ UNCHANGED <<notDapVars, breakpoints, breakpointIdCounter, stopped, dapSendCallback,
                   assignedIds>>

\* DAPHandler.handleLaunch: the response, and with stopOnEntry and without
\* noDebug the 'stopped' event
handleLaunch(req, stopOnEntry, noDebug) ==
    /\ IF stopOnEntry /\ ~noDebug
         THEN /\ stopped' = TRUE
              /\ Handled(req, sendEvent(sendResponse(DapSt, req), "stopped"))
         ELSE /\ UNCHANGED stopped
              /\ Handled(req, sendResponse(DapSt, req))
    /\ UNCHANGED <<notDapVars, breakpoints, breakpointIdCounter, initialized,
                   dapSendCallback, assignedIds>>

\* handleAttach, handleConfigurationDone, handleThreads, handleStackTrace,
\* handleScopes, handleVariables, handleNext, handleStepIn, handleStepOut: the
\* response and nothing else
handleAcknowledged(req) ==
    /\ Handled(req, sendResponse(DapSt, req))
    /\ UNCHANGED <<notDapVars, breakpoints, breakpointIdCounter, initialized, stopped,
                   dapSendCallback, assignedIds>>

\* DAPHandler.handleContinue
handleContinue(req) ==
    /\ stopped' = FALSE
    /\ Handled(req, sendResponse(DapSt, req))
    /\ UNCHANGED <<notDapVars, breakpoints, breakpointIdCounter, initialized,
                   dapSendCallback, assignedIds>>

\* DAPHandler.handlePause
handlePause(req) ==
    /\ stopped' = TRUE
    /\ Handled(req, sendEvent(sendResponse(DapSt, req), "stopped"))
    /\ UNCHANGED <<notDapVars, breakpoints, breakpointIdCounter, initialized,
                   dapSendCallback, assignedIds>>

\* the default case of handleRequest
handleUnhandled(req) ==
    /\ Handled(req, sendErrorResponse(DapSt, req))
    /\ UNCHANGED <<notDapVars, breakpoints, breakpointIdCounter, initialized, stopped,
                   dapSendCallback, assignedIds>>

\* DAPHandler.notifyStopped
notifyStopped ==
    /\ stopped' = TRUE
    /\ Handled(NoRequest, sendEvent(DapSt, "stopped"))
    /\ UNCHANGED <<notDapVars, breakpoints, breakpointIdCounter, initialized,
                   dapSendCallback, assignedIds>>

\* the ids a request with n breakpoints is given
NewIds(n) == {breakpointIdCounter + i - 1 : i \in 1..n}

\* A handler that clears the whole map before it stores the request: C28
\* does not hold of it.
handleSetBreakpointsClearAll(sourcePath, requestedBreakpoints) ==
    /\ breakpointIdCounter + Len(requestedBreakpoints) <= MaxBpId + 1
    /\ breakpoints' =
         [p \in DapPaths |->
            IF p = sourcePath
              THEN [i \in 1..Len(requestedBreakpoints) |->
                      [id |-> breakpointIdCounter + i - 1,
                       line |-> LineOf(requestedBreakpoints[i])]]
              ELSE <<>>]
    /\ breakpointIdCounter' = breakpointIdCounter + Len(requestedBreakpoints)
    /\ assignedIds' = assignedIds \cup NewIds(Len(requestedBreakpoints))
    /\ \E s \in RequestSeqs :
          LET req == [seq |-> s, command |-> "setBreakpoints"]
          IN  Handled(req, sendResponse(DapSt, req))
    /\ UNCHANGED <<notDapVars, initialized, stopped, dapSendCallback>>

\* DAPHandler.handleSetBreakpoints: the entry of the file is deleted, every
\* requested breakpoint gets the next id, the list is stored unless it is
\* empty, and the response is sent.
handleSetBreakpoints(sourcePath, requestedBreakpoints) ==
    /\ breakpointIdCounter + Len(requestedBreakpoints) <= MaxBpId + 1
    /\ LET fileBreakpoints ==
             [i \in 1..Len(requestedBreakpoints) |->
                [id |-> breakpointIdCounter + i - 1,
                 line |-> LineOf(requestedBreakpoints[i])]]
       IN  breakpoints' = [breakpoints EXCEPT ![sourcePath] = fileBreakpoints]
    /\ breakpointIdCounter' = breakpointIdCounter + Len(requestedBreakpoints)
    /\ assignedIds' = assignedIds \cup NewIds(Len(requestedBreakpoints))
    /\ \E s \in RequestSeqs :
          LET req == [seq |-> s, command |-> "setBreakpoints"]
          IN  Handled(req, sendResponse(DapSt, req))
    /\ UNCHANGED <<notDapVars, initialized, stopped, dapSendCallback>>

\* A disconnect that starts the breakpoint ids again at 1: C38 does not hold
\* of it.
handleDisconnectResetsIds ==
    /\ initialized' = FALSE
    /\ stopped' = FALSE
    /\ breakpoints' = [p \in DapPaths |-> <<>>]
    /\ breakpointIdCounter' = 1
    /\ \E s \in RequestSeqs :
          LET req == [seq |-> s, command |-> "disconnect"]
          IN  Handled(req, sendEvent(sendResponse(DapSt, req), "terminated"))
    /\ UNCHANGED <<notDapVars, dapSendCallback, assignedIds>>

\* DAPHandler.handleDisconnect: the flags are reset, breakpoints.clear(), the
\* response and the 'terminated' event are sent
handleDisconnect ==
    /\ initialized' = FALSE
    /\ stopped' = FALSE
    /\ breakpoints' = [p \in DapPaths |-> <<>>]
    /\ \E s \in RequestSeqs :
          LET req == [seq |-> s, command |-> "disconnect"]
          IN  Handled(req, sendEvent(sendResponse(DapSt, req), "terminated"))
    /\ UNCHANGED <<notDapVars, breakpointIdCounter, dapSendCallback, assignedIds>>

\* DAPHandler.handleRequest: the switch on the command
handleRequest(req) ==
    /\ request' = req
    /\ \/ req.command = "initialize" /\ handleInitialize(req)
       \/ req.command = "launch"
            /\ \E stopOnEntry \in BOOLEAN, noDebug \in BOOLEAN :
                  handleLaunch(req, stopOnEntry, noDebug)
       \/ req.command = "setBreakpoints"
            /\ \E p \in DapPaths, bps \in BreakpointLists : handleSetBreakpoints(p, bps)
       \/ req.command \in AcknowledgedCommands /\ handleAcknowledged(req)
       \/ req.command = "continue" /\ handleContinue(req)
       \/ req.command = "pause" /\ handlePause(req)
       \/ req.command = "disconnect" /\ handleDisconnect
       \/ req.command \notin ImplementedCommands /\ handleUnhandled(req)

DapNext ==
    \/ \E req \in Requests : handleRequest(req)
    \/ DapSetSendCallback
    \/ notifyStopped

\* the debug handler takes requests of every command, with or without a send
\* callback installed
DapSpec == Init /\ [][DapNext]_vars

\* the lines of a stored list, in order
StoredLines(list) == [i \in 1..Len(list) |-> list[i].line]

\* C28: the step that handles 'set breakpoints' for a file leaves, for that
\* file, as many stored breakpoints as the request has, with the request's
\* lines in the request's order, and leaves the stored breakpoints of every
\* other file as they were.
C28_SetBreakpointsReplacesFile ==
    [][\A p \in DapPaths, bps \in BreakpointLists :
          handleSetBreakpoints(p, bps)
            => /\ StoredLines(breakpoints'[p]) = [i \in 1..Len(bps) |-> LineOf(bps[i])]
               /\ \A q \in DapPaths \ {p} : breakpoints'[q] = breakpoints[q]]_vars

\* C28 witness: the breakpoints of /main.py were set a second time, to lines 1
\* and 2, while /lib.py keeps the breakpoint it was given before.
C28_Witness ==
    /\ StoredLines(breakpoints["/main.py"]) = <<1, 2>>
    /\ breakpoints["/main.py"][1].id = 3
    /\ StoredLines(breakpoints["/lib.py"]) = <<2>>
    /\ breakpoints["/lib.py"][1].id = 2

\* ----------------------------------------------------- frames that are dropped
\* what decode() made of a channelized frame: whether it decoded at all,
\* whether the value is an array, its length, and whether its first two
\* elements are numbers; frame is what the callbacks would be given
CbRawFrames ==
    {[shape |-> sh, frame |-> CbFrame(WCB_ERROR, 0, 0, CbDeviceError)] :
        sh \in {[decodes |-> FALSE, isArray |-> FALSE, length |-> 0,
                 channelIsNumber |-> FALSE, opcodeIsNumber |-> FALSE],
                [decodes |-> TRUE, isArray |-> FALSE, length |-> 0,
                 channelIsNumber |-> FALSE, opcodeIsNumber |-> FALSE],
                [decodes |-> TRUE, isArray |-> TRUE, length |-> 1,
                 channelIsNumber |-> TRUE, opcodeIsNumber |-> FALSE],
                [decodes |-> TRUE, isArray |-> TRUE, length |-> 3,
                 channelIsNumber |-> FALSE, opcodeIsNumber |-> TRUE],
                [decodes |-> TRUE, isArray |-> TRUE, length |-> 3,
                 channelIsNumber |-> TRUE, opcodeIsNumber |-> FALSE],
                [decodes |-> TRUE, isArray |-> TRUE, length |-> 3,
                 channelIsNumber |-> TRUE, opcodeIsNumber |-> TRUE]}}

\* handleMessage reaches the callbacks: decode() returned, the value is an
\* array of at least two elements, and channel and opcode are numbers
CbWellFormed(sh) ==
    /\ sh.decodes
    /\ sh.isArray /\ sh.length >= 2
    /\ sh.channelIsNumber /\ sh.opcodeIsNumber

\* WebREPLCBHandler.handleMessage for a frame of any shape
CbReceiveRaw(m) ==
    /\ IF CbWellFormed(m.shape)
         THEN LET st == CbHandleMessage(channelCallbacks, CbSt, m.frame)
              IN  /\ cbOp' = st.op
                  /\ cbTimer' = st.tm
                  /\ tftpTransfers' = st.tr
                  /\ cbSent' = st.out
         ELSE /\ UNCHANGED <<cbOp, cbTimer, tftpTransfers>>
              /\ cbSent' = <<>>
    /\ rxRaw' = [NoRaw EXCEPT !.via = "cb", !.shape = m.shape]
    /\ UNCHANGED <<connectionVars, auxVars, sendCallback, channelCallbacks, cbDev, cbStore,
                   cbPeer>>

\* the session has used the legacy file protocol, the channelized one
LegacyUsed == \E c \in Calls : callKind[c] # "none"
CbUsed == sendCallback \/ channelCallbacks # <<>>

\* A connected session that transfers files by the legacy protocol or by the
\* channelized one, within the timeouts of the channelized operations; the
\* device sends frames of any shape at any time.
DropNext ==
    \/ /\ ~CbUsed
       /\ \/ \E c \in Calls, type \in FileKinds : Serialised(FileKinds) /\ FileOp(c, type)
          \/ \E f \in BinFrames : DeviceSendBinary(f)
          \/ \E data \in RawBins : DeviceSendRawBinary(data)
          \/ \E c \in Calls : FileOpTimeout(c)
          \/ \E c \in Calls : HostResult(c)
          \/ \E c \in Calls : HostTimeout(c)
          \/ Tick
    \/ /\ ~LegacyUsed
       /\ \/ CbSetSendCallback
          \/ \E r \in CbOps : CbStart(r)
          \/ CbExchange
          \/ \E m \in CbRawFrames : CbReceiveRaw(m)

DropSpec == ExecInit /\ [][DropNext]_vars

\* the frame is a binary frame without the four bytes of a response that
\* begins with 'W' 'B', or a channelized frame that did not decode, is no
\* array, has fewer than two elements or has a channel or opcode that is no
\* number
Unroutable(raw) ==
    \/ /\ raw.via = "legacy"
       /\ ~(Len(raw.bytes) >= 4 /\ SubSeq(raw.bytes, 1, 2) = <<87, 66>>)
    \/ /\ raw.via = "cb"
       /\ \/ ~raw.shape.decodes
          \/ ~raw.shape.isArray
          \/ raw.shape.length < 2
          \/ ~raw.shape.channelIsNumber
          \/ ~raw.shape.opcodeIsNumber

\* C27: the step that receives a binary frame that is no file response, or a
\* channelized frame that does not decode to an array of at least a numeric
\* channel and opcode, sends nothing and leaves every call, registration,
\* timer, callback list and transfer record as it was.
C27_UnroutableFrameIsDropped ==
    [][Unroutable(rxRaw') =>
          /\ sent' = <<>> /\ cbSent' = <<>>
          /\ UNCHANGED <<connVars, engineVars, callVars, fileVars, hostVars>>
          /\ UNCHANGED <<sendCallback, channelCallbacks, tftpTransfers, cbOp, cbTimer>>]_vars

\* C27 witness: the step just taken received the two bytes 'W' 'B' while a
\* put was pending, which still is.
C27_Witness ==
    /\ rxRaw.via = "legacy" /\ rxRaw.bytes = <<87, 66>>
    /\ pendingFileOp.type = "put" /\ callState[pendingFileOp.call] = "submitted"

\* the operation was resolved, rejected by an error frame or rejected by its
\* timeout
SettledByDevice(o) == o.state \in Settled /\ o.err # <<ERR_CB_NO_SEND>>

\* C31: a channelized operation that was resolved, rejected by an error frame
\* or rejected by its timeout keeps its transfer record as it is in every
\* later step, and the delivery of a frame while no transfer is pending sends
\* no message.
C31_SettledOperationIsInert ==
    [][/\ \A r \in CbOps : SettledByDevice(cbOp[r]) => cbOp'[r] = cbOp[r]
       /\ (\A r \in CbOps : cbOp[r].state = "pending" => cbOp[r].kind \notin {"read", "write"})
             /\ (\A r \in CbOps : cbOp[r].err # <<ERR_CB_NO_SEND>>)
             /\ CbExchange
            => cbSent' = <<>>]_vars

\* C32: the expiry of a timer of call c leaves in place what a later call d
\* holds: its LIST-DIR handler, the legacy file slot and its host entry, and
\* does not settle d.
C32_OlderTimerSparesNewerEntry ==
    [][\A c \in Calls, d \in Calls :
          c < d /\ (ListDirTimeout(c) \/ FileOpTimeout(c) \/ HostTimeout(c))
            => /\ \A t \in ResponseCmds : pendingCommands[t] = d => pendingCommands'[t] = d
               /\ pendingFileOp.call = d => pendingFileOp' = pendingFileOp
               /\ hostState'[d] = hostState[d]
               /\ callState'[d] = callState[d]]_vars

\* C33: in the webview bridge the close event of a transport that is no
\* longer the connection's transport leaves the lifecycle state as it is.
C33_StaleCloseKeepsLifecycle ==
    [][\A a \in Attempts :
          impl = "bridge" /\ wsRef \notin {0, a} /\ CloseEvent(a)
            => webreplState' = webreplState]_vars

\* C34: in the webview bridge, once a connect() has resolved, the raw-mode-entry
\* timer started during that connect has no further effect: when it expires it
\* changes neither the execution sub-state nor the lifecycle state, and it does not
\* act on a connection made by a later connect().
C34_EntryTimerInertAfterResolve ==
    [][\A a \in Attempts :
          impl = "bridge" /\ connCall[a] = "resolved" /\ RawEntryTimeout(a)
            => /\ replState' = replState
               /\ webreplState' = webreplState
               /\ connCall' = connCall]_vars

\* ---------------------------------------------------------------------------
\* The host's connection object driving the webview bridge through messages
\* ---------------------------------------------------------------------------

\* a message between host and webview; requestId is 0 when it carries none
Msg(type, requestId) == [type |-> type, requestId |-> requestId]

\* how often an event was raised
Count(log, e) == Cardinality({i \in 1..Len(log) : log[i] = e})

\* WebREPLConnection.connect up to its await, BridgeWebview.connect: refused
\* unless the host's state is DISCONNECTED; the request is registered and the
\* 'connect' command is posted.
HostConnect ==
    /\ host.webreplState = "DISCONNECTED"
    /\ host.connects < MaxHostConnects
    /\ LET id == host.connects + 1
       IN  /\ host' = [host EXCEPT !.connects = id, !.call[id] = "pending"]
           /\ toWebview' = Append(toWebview, Msg("connect", id))
    /\ UNCHANGED <<webview, toHost, events, notHostConnVars>>

\* the 15 s timer of BridgeWebview.connect: a request still registered is
\* removed and rejected
HostConnectTimeout(id) ==
    /\ host.call[id] = "pending"
    /\ host' = [host EXCEPT !.call[id] = "rejected"]
    /\ UNCHANGED <<webview, toWebview, toHost, events, notHostConnVars>>

\* WebREPLConnection.disconnect, BridgeWebview.disconnect: the 'disconnect'
\* command is posted, the state is reset, the disconnected event is raised
HostDisconnect ==
    /\ host.disconnects < MaxHostDisconnects
    /\ toWebview' = Append(toWebview, Msg("disconnect", 0))
    /\ host' = [host EXCEPT !.webreplState = "DISCONNECTED", !.disconnects = @ + 1]
    /\ events' = Append(events, "disconnected")
    /\ UNCHANGED <<webview, toHost, notHostConnVars>>

\* the connected event is raised as often as this step says
RaiseConnected(n) ==
    events' = events \o [i \in 1..n |-> "connected"]

\* BridgeWebview.handleMessage with the callbacks of activate, and the
\* continuation of WebREPLConnection.connect once its request is resolved
HostReceive ==
    /\ toHost # <<>>
    /\ toHost' = Tail(toHost)
    /\ LET m == Head(toHost)
       IN  CASE m.type = "connected" ->
                  /\ host' = [host EXCEPT !.webreplState = "CONNECTED"]
                  /\ RaiseConnected(1)
             [] m.type = "disconnected" ->
                  /\ host' = [host EXCEPT !.webreplState = "DISCONNECTED"]
                  /\ events' = Append(events, "disconnected")
             [] m.type = "result" /\ host.call[m.requestId] = "pending" ->
                  /\ host' = [host EXCEPT !.call[m.requestId] = "resolved",
                                          !.resolved = @ + 1,
                                          !.webreplState = "CONNECTED"]
                  /\ RaiseConnected(1)
             [] m.type = "error" /\ host.call[m.requestId] = "pending" ->
                  /\ host' = [host EXCEPT !.call[m.requestId] = "rejected"]
                  /\ UNCHANGED events
             [] OTHER -> UNCHANGED <<host, events>>
    /\ UNCHANGED <<webview, toWebview, notHostConnVars>>

\* the webview's message listener: 'connect' starts WebREPLBridge.connect,
\* which throws unless the bridge is DISCONNECTED; 'disconnect' runs
\* WebREPLBridge.disconnect, which closes the socket it holds
WebviewReceive ==
    /\ toWebview # <<>>
    /\ toWebview' = Tail(toWebview)
    /\ LET m == Head(toWebview)
       IN  IF m.type = "connect"
             THEN IF webview.webreplState # "DISCONNECTED"
                    THEN /\ toHost' = Append(toHost, Msg("error", m.requestId))
                         /\ UNCHANGED webview
                    ELSE /\ webview' = [webview EXCEPT !.webreplState = "CONNECTING",
                                                       !.websocket = m.requestId]
                         /\ UNCHANGED toHost
             ELSE /\ webview' = [webview EXCEPT
                                   !.webreplState = "DISCONNECTED",
                                   !.websocket = 0,
                                   !.closing = IF webview.websocket \notin HostConnects
                                                 THEN @ ELSE @ + 1]
                  /\ UNCHANGED toHost
    /\ UNCHANGED <<host, events, notHostConnVars>>

\* WebREPLBridge.connect comes to its end: 'connected' is posted and the
\* promise resolved, so the listener posts the result
WebviewConnected ==
    /\ webview.webreplState = "CONNECTING"
    /\ webview.websocket \in HostConnects
    /\ webview' = [webview EXCEPT !.webreplState = "CONNECTED"]
    /\ toHost' = toHost \o <<Msg("connected", 0), Msg("result", webview.websocket)>>
    /\ UNCHANGED <<host, toWebview, events, notHostConnVars>>

\* the 10 s timer of WebREPLBridge.connect: the promise is rejected, so the
\* listener posts the error, and disconnect() closes the socket
WebviewConnectTimeout ==
    /\ webview.webreplState = "CONNECTING"
    /\ webview.websocket \in HostConnects
    /\ webview' = [webview EXCEPT !.webreplState = "DISCONNECTED", !.websocket = 0,
                                  !.closing = @ + 1]
    /\ toHost' = Append(toHost, Msg("error", webview.websocket))
    /\ UNCHANGED <<host, toWebview, events, notHostConnVars>>

\* the close listener, for a socket closed by disconnect()
WebviewCloseEvent ==
    /\ webview.closing > 0
    /\ webview' = [webview EXCEPT !.webreplState = "DISCONNECTED", !.closing = @ - 1]
    /\ toHost' = Append(toHost, Msg("disconnected", 0))
    /\ UNCHANGED <<host, toWebview, events, notHostConnVars>>

\* the close listener, for the current socket closed by the device
TransportClose ==
    /\ webview.websocket \in HostConnects
    /\ webview.closes < MaxCloses
    /\ webview' = [webview EXCEPT !.webreplState = "DISCONNECTED", !.websocket = 0,
                                  !.closes = @ + 1]
    /\ toHost' = Append(toHost, Msg("disconnected", 0))
    /\ UNCHANGED <<host, toWebview, events, notHostConnVars>>

HostConnNext ==
    \/ HostConnect
    \/ \E id \in HostConnects : HostConnectTimeout(id)
    \/ HostDisconnect
    \/ HostReceive
    \/ WebviewReceive
    \/ WebviewConnected
    \/ WebviewConnectTimeout
    \/ WebviewCloseEvent
    \/ TransportClose

\* connect() and disconnect() through the bridge, with the webview's answers
HostConnSpec == Init /\ [][HostConnNext]_vars

\* nothing is in flight between the host and the webview
HostQuiet ==
    /\ toHost = <<>>
    /\ toWebview = <<>>
    /\ webview.closing = 0
    /\ webview.webreplState # "CONNECTING"
    /\ \A id \in HostConnects : host.call[id] # "pending"

\* C35: once nothing is in flight between host and webview, the connection has
\* raised its connected event once for each connect() that resolved and its
\* disconnected event once for each disconnect() and each transport close; and
\* the host's lifecycle state is CONNECTED exactly when the last event raised
\* is a connected event.
C35_OneEventPerConnectAndDisconnect ==
    /\ HostQuiet =>
         /\ Count(events, "connected") = host.resolved
         /\ Count(events, "disconnected") = host.disconnects + webview.closes
    /\ host.webreplState = "CONNECTED"
         <=> (events # <<>> /\ events[Len(events)] = "connected")

ResponsesOf(out) == {i \in 1..Len(out) : out[i].type = "response"}

\* C37: the step that handles a debug request sends exactly one response, with
\* the request's seq as request_seq and the request's command, with success
\* set for the implemented commands and cleared, with a message, for the
\* others; and every message a step sends carries a seq greater than the seq
\* of every message sent before it.
C37_OneResponsePerRequest ==
    [][/\ \A req \in Requests :
            handleRequest(req)
              => /\ Cardinality(ResponsesOf(dapOut')) = 1
                 /\ \A i \in ResponsesOf(dapOut') :
                       /\ dapOut'[i].request_seq = req.seq
                       /\ dapOut'[i].command = req.command
                       /\ dapOut'[i].success = (req.command \in ImplementedCommands)
                       /\ ~dapOut'[i].success => dapOut'[i].message # ""
       /\ \A i, j \in 1..Len(sentSeqs') : i < j => sentSeqs'[i] < sentSeqs'[j]]_vars

\* the ids of a stored list
IdsOf(list) == {list[i].id : i \in 1..Len(list)}

\* C38: the step that handles 'set breakpoints' gives every breakpoint of the
\* request an id that no breakpoint was given before, in this request or in an
\* earlier one, whatever the file and whether or not a debug disconnect came
\* in between; and the step that handles a debug disconnect leaves no
\* breakpoint stored and the initialized and stopped flags cleared.
C38_BreakpointIdsNeverReused ==
    [][/\ \A p \in DapPaths, bps \in BreakpointLists :
            handleSetBreakpoints(p, bps)
              => /\ IdsOf(breakpoints'[p]) \cap assignedIds = {}
                 /\ Cardinality(IdsOf(breakpoints'[p])) = Len(bps)
       /\ handleDisconnect
            => /\ \A p \in DapPaths : breakpoints'[p] = <<>>
               /\ ~initialized'
               /\ ~stopped']_vars

\* C38 witness: a debug disconnect has just been handled after the ids 1 and 2
\* were assigned: nothing is stored, the flags are cleared, and the next id is
\* still 3.
C38_Witness ==
    /\ request.command = "disconnect"
    /\ assignedIds = {1, 2}
    /\ breakpointIdCounter = 3
    /\ \A p \in DapPaths : breakpoints[p] = <<>>
    /\ ~initialized
    /\ ~stopped
    /\ Len(dapOut) = 2

\* ---------------------------------------------------------------------------
\* The legacy request frame of getFile and putFile
\* ---------------------------------------------------------------------------

WEBREPL_OP_PUT_FILE == 1
WEBREPL_OP_GET_FILE == 2

\* paths and payloads: every short one, and long ones of one repeated item
MaxShortPath == 2
MaxLongPath == 256
MaxShortData == 2
MaxLongData == 257

\* '/', 'a' and 'e' with an acute accent, as code points
PathChars == {47, 97, 233}

RemotePaths ==
    UNION {[1..n -> PathChars] : n \in 0..MaxShortPath}
      \cup {[i \in 1..n |-> c] :
              n \in {MaxLongPath \div 2 - 1, MaxLongPath \div 2, MaxLongPath - 1, MaxLongPath},
              c \in {97, 233}}

FileData ==
    UNION {[1..n -> {0, 255}] : n \in 0..MaxShortData}
      \cup {[i \in 1..n |-> 7] : n \in {MaxLongData - 1, MaxLongData}}

\* new TextEncoder().encode(s): one byte for a code point below 128, two
\* bytes for one below 2048 (computed by halves)
RECURSIVE TextEncode(_)
TextEncode(s) ==
    IF s = <<>> THEN <<>>
    ELSE IF Len(s) = 1
      THEN IF s[1] < 128 THEN <<s[1]>> ELSE <<192 + (s[1] \div 64), 128 + (s[1] % 64)>>
      ELSE LET h == Len(s) \div 2
           IN  TextEncode(SubSeq(s, 1, h)) \o TextEncode(SubSeq(s, h + 1, Len(s)))

\* the inverse, for the reader of the frame (by halves, cut between two
\* characters): a byte that starts no character of one or two bytes, or a
\* character cut short, decodes to -1
RECURSIVE TextDecode(_)
TextDecode(b) ==
    IF b = <<>> THEN <<>>
    ELSE IF Len(b) = 1 THEN (IF b[1] < 128 THEN <<b[1]>> ELSE <<-1>>)
    ELSE IF Len(b) = 2
      THEN IF b[1] \in 192..223 /\ b[2] \in 128..191
             THEN <<(b[1] - 192) * 64 + (b[2] - 128)>>
             ELSE TextDecode(<<b[1]>>) \o TextDecode(<<b[2]>>)
      ELSE LET h0 == Len(b) \div 2
               h == IF b[h0 + 1] \in 128..191 THEN h0 + 1 ELSE h0
           IN  TextDecode(SubSeq(b, 1, h)) \o TextDecode(SubSeq(b, h + 1, Len(b)))

\* storing a number in an element of a Uint8Array
Uint8(n) == n % 256

\* getFile: the request frame
getFileHeader(remotePath) ==
    LET pathBytes == TextEncode(remotePath)
    IN  <<87, 65, WEBREPL_OP_GET_FILE, Uint8(Len(pathBytes))>> \o pathBytes

\* putFile: the request frame
putFileHeader(remotePath, data) ==
    LET pathBytes == TextEncode(remotePath)
    IN  <<87, 65, WEBREPL_OP_PUT_FILE, Uint8(Len(pathBytes))>> \o pathBytes
          \o <<Len(data) % 256, (Len(data) \div 256) % 256, (Len(data) \div 65536) % 256,
               (Len(data) \div 16777216) % 256>>
          \o data

\* getFile builds its request
GetFileRequest(remotePath) ==
    /\ fileRequest' = [op |-> WEBREPL_OP_GET_FILE, path |-> remotePath, data |-> <<>>]
    /\ header' = getFileHeader(remotePath)
    /\ UNCHANGED notCodecVars

\* putFile builds its request
PutFileRequest(remotePath, data) ==
    /\ fileRequest' = [op |-> WEBREPL_OP_PUT_FILE, path |-> remotePath, data |-> data]
    /\ header' = putFileHeader(remotePath, data)
    /\ UNCHANGED notCodecVars

HeaderNext ==
    \/ \E p \in RemotePaths : GetFileRequest(p)
    \/ \E p \in RemotePaths, d \in FileData : PutFileRequest(p, d)

\* requests for every path and payload, in any order
HeaderSpec == Init /\ [][HeaderNext]_vars

\* a frame that does not have the documented layout
Malformed == [op |-> -1, path |-> <<>>, data |-> <<>>]

\* Reading a request frame by the documented layout: 'W', 'A', the opcode,
\* the number of path bytes, the path bytes, and for PUT the payload length
\* in four bytes, low byte first, and exactly that many payload bytes.
DecodeRequest(f) ==
    IF Len(f) < 4 \/ f[1] # 87 \/ f[2] # 65 \/ Len(f) < 4 + f[4]
      THEN Malformed
      ELSE LET n == f[4]
               path == TextDecode(SubSeq(f, 5, 4 + n))
           IN  IF f[3] = WEBREPL_OP_GET_FILE
                 THEN IF Len(f) = 4 + n
                        THEN [op |-> f[3], path |-> path, data |-> <<>>]
                        ELSE Malformed
                 ELSE IF f[3] = WEBREPL_OP_PUT_FILE /\ Len(f) >= 8 + n
                        THEN LET size == f[5 + n] + 256 * f[6 + n] + 65536 * f[7 + n]
                                           + 16777216 * f[8 + n]
                             IN  IF Len(f) = 8 + n + size
                                   THEN [op |-> f[3], path |-> path,
                                         data |-> SubSeq(f, 9 + n, Len(f))]
                                   ELSE Malformed
                        ELSE Malformed

\* C39: the frame built for a get or put request reads back, by the documented
\* layout, as the opcode, the path and the payload it was built from.
C39_RequestFrameDecodesBack ==
    fileRequest # NoFileRequest => DecodeRequest(header) = fileRequest

====
